---------------------------- MODULE Spec2Model ----------------------------
(***************************************************************************)
(* A model of netaddr's IP layer (lib/netaddr/ip/__init__.py): IPAddress   *)
(* and IPNetwork objects, their ordering, arithmetic and conversion, the   *)
(* set-algebra functions cidr_merge, cidr_exclude, spanning_cidr and       *)
(* iprange_to_cidrs, and the matching functions.                           *)
(*                                                                         *)
(* The address widths of the two IP versions are scaled down (Width4,      *)
(* Width6) so that the whole address space can be enumerated.  A network   *)
(* is a record [version, value, prefixlen] and an address a record         *)
(* [version, value]; an address handed to one of the set-algebra functions *)
(* is first turned into an IPNetwork with the full-width prefix            *)
(* (IPNetwork.__init__), so their inputs are networks throughout.          *)
(***************************************************************************)
EXTENDS Integers, Sequences, FiniteSets

(***************************************************************************)
(* Bounds.                                                                 *)
(***************************************************************************)
\* Width in bits of an IPv4 address in the model (32 in the program).
Width4 == 3

\* Width in bits of an IPv6 address in the model (128 in the program).
Width6 == 1

\* The largest number of items an input sequence holds.
MaxItems == 3

\* The number of one bits of the IPv4-mapped prefix 0xffff (16 in the
\* program): the literal 0xffff00000000 of IPAddress.ipv4 is MappedBits ones
\* above an IPv4 address.
MappedBits == 2

VARIABLES
    pc,                     \* position of the call in progress
    op,                     \* the function called
    n_items,                \* items of ip_addrs consumed so far
    covered,                \* <<version, address>> of every item consumed
    ipv4_bit_cidrs,         \* cidr_merge: set of IPv4 prefix bit strings
    ipv6_bit_cidrs,         \* cidr_merge: set of IPv6 prefix bit strings
    ipv4_match_all_found,   \* cidr_merge: an IPv4 /0 was seen
    ipv6_match_all_found,   \* cidr_merge: an IPv6 /0 was seen
    sorted_ips,             \* the sorted list of IPNetworks of a call
    target,                 \* cidr_exclude: target (as IPNetwork)
    exclude,                \* cidr_exclude: exclude (as IPNetwork)
    result,                 \* the list the call returned, or its error
    start,                  \* iprange_to_cidrs: start (as IPNetwork)
    end,                    \* iprange_to_cidrs: end (as IPNetwork)
    addr,                   \* an IPAddress object: the receiver or argument
    subnet,                 \* an IPNetwork object: the receiver or argument
    other_obj,              \* the object a comparison is made with
    num_arg,                \* the integer operand num of the call
    self_before,            \* the receiver as it was when the call began
    ret,                    \* the object the call returned, or its error
    args,                   \* the further arguments of the call
    locals                  \* the local variables of a call run in steps

vars == <<pc, op, n_items, covered, ipv4_bit_cidrs, ipv6_bit_cidrs,
          ipv4_match_all_found, ipv6_match_all_found, sorted_ips,
          target, exclude, result,
          start, end, addr, subnet, other_obj, num_arg, self_before,
          ret, args, locals>>

\* The variables only the calls on a single object or a pair of bounds use.
object_vars == <<start, end, addr, subnet, other_obj, num_arg,
                 self_before, ret, args, locals>>

\* The variables only cidr_merge and cidr_exclude use.
merge_vars == <<n_items, covered, ipv4_bit_cidrs, ipv6_bit_cidrs,
                ipv4_match_all_found, ipv6_match_all_found, target, exclude>>

(***************************************************************************)
(* The version strategies (netaddr.strategy.ipv4 / ipv6).                  *)
(***************************************************************************)
Versions == {4, 6}

width(version) == IF version = 4 THEN Width4 ELSE Width6

max_int(version) == (2 ^ width(version)) - 1

\* A textual address: the format it is written in and the number it spells.
\* int_to_str writes the version's own format.
int_to_str(version, int) == [fmt |-> version, int |-> int]

\* str_to_int raises AddrFormatError (here -1) on text of the other format.
str_to_int(version, str) == IF str.fmt = version THEN str.int ELSE -1

\* int_to_bits(int, word_sep=''): width binary digits, most significant first.
int_to_bits(version, int) ==
    [i \in 1..width(version) |-> (int \div (2 ^ (width(version) - i))) % 2]

RECURSIVE bits_to_int(_)
bits_to_int(bits) ==
    IF Len(bits) = 0 THEN 0
    ELSE (2 * bits_to_int(SubSeq(bits, 1, Len(bits) - 1))) + bits[Len(bits)]

RECURSIVE log2(_)
log2(n) == IF n <= 1 THEN 0 ELSE 1 + log2(n \div 2)

\* netaddr.core.num_bits as the ordering key uses it: width - num_bits(size)
\* is the number of network bits.
num_bits(n) == log2(n)

(***************************************************************************)
(* Python's integer operators & | ^ on non-negative integers.              *)
(***************************************************************************)
RECURSIVE BitAnd(_, _)
BitAnd(a, b) ==
    IF a = 0 \/ b = 0 THEN 0
    ELSE ((a % 2) * (b % 2)) + (2 * BitAnd(a \div 2, b \div 2))

RECURSIVE BitOr(_, _)
BitOr(a, b) ==
    IF a = 0 THEN b
    ELSE IF b = 0 THEN a
    ELSE (IF (a % 2) = 1 \/ (b % 2) = 1 THEN 1 ELSE 0)
         + (2 * BitOr(a \div 2, b \div 2))

RECURSIVE BitXor(_, _)
BitXor(a, b) ==
    IF a = 0 THEN b
    ELSE IF b = 0 THEN a
    ELSE ((a + b) % 2) + (2 * BitXor(a \div 2, b \div 2))

(***************************************************************************)
(* IPNetwork.                                                              *)
(***************************************************************************)
Net(version, value, prefixlen) ==
    [version |-> version, value |-> value, prefixlen |-> prefixlen]

\* What a constructor that raised leaves: no network.
NoNet == Net(0, 0, 0)

\* Every IPNetwork of a version, host bits included.
NetsOf(version) ==
    { Net(version, value, prefixlen) :
        value \in 0..max_int(version), prefixlen \in 0..width(version) }

Nets == NetsOf(4) \cup NetsOf(6)

\* IPNetwork._set_value with the version still undetected: the first of
\* (ipv4, ipv6) whose str_to_int accepts the text.
detect_version(str) ==
    IF str_to_int(4, str) >= 0 THEN 4
    ELSE IF str_to_int(6, str) >= 0 THEN 6
    ELSE 0

\* IPNetwork('%s/%d' % (ip, prefixlen)): the text is split at '/', the
\* address part sets version and value, the integer suffix is the prefix
\* length, accepted in 0..width.
IPNetworkFromStr(str, suffix) ==
    LET version == detect_version(str)
    IN  IF version = 0 THEN NoNet
        ELSE IF 0 <= suffix /\ suffix <= width(version)
             THEN Net(version, str_to_int(version, str), suffix)
             ELSE NoNet

\* cidr_abbrev_to_verbose on the text '%s/%d' % (address, prefixlen): text
\* with a ':' is returned as it is; a dotted quad has its four tokens and
\* its prefix rejoined, and is returned as it is when the prefix is out of
\* range.
cidr_abbrev_to_verbose(str, suffix) ==
    IF str.fmt = 6 THEN [str |-> str, suffix |-> suffix]
    ELSE IF ~(0 <= suffix /\ suffix <= width(4))
         THEN [str |-> str, suffix |-> suffix]
         ELSE [str |-> int_to_str(4, str.int), suffix |-> suffix]

\* self.__class__('%s/%d' % (address, prefixlen), self.version): the second
\* argument is implicit_prefix, so the text goes through
\* cidr_abbrev_to_verbose.
IPNetworkImplicit(str, suffix) ==
    LET verbose == cidr_abbrev_to_verbose(str, suffix)
    IN  IPNetworkFromStr(verbose.str, verbose.suffix)

hostmask(net) == (2 ^ (width(net.version) - net.prefixlen)) - 1

netmask(net) == BitXor(max_int(net.version), hostmask(net))

network(net) == BitAnd(net.value, netmask(net))

\* first with the host mask in place of its complement.
first_of_hostmask(net) == BitAnd(net.value, hostmask(net))

first(net) == BitAnd(net.value, BitXor(max_int(net.version), hostmask(net)))

broadcast(net) == BitOr(net.value, hostmask(net))

last(net) ==
    LET mask == (2 ^ (width(net.version) - net.prefixlen)) - 1
    IN  BitOr(net.value, mask)

size(net) == last(net) - first(net) + 1

cidr(net) ==
    LET ip == BitAnd(net.value, netmask(net))
    IN  IPNetworkFromStr(int_to_str(net.version, ip), net.prefixlen)

\* other in self, for IPNetworks.
contains(self, other) ==
    IF self.version # other.version THEN FALSE
    ELSE first(other) >= first(self) /\ last(other) <= last(self)

\* The key without the size of the network.
sort_key_no_size(net) ==
    LET host_bits == net.value - first(net)
    IN  <<net.version, first(net), host_bits>>

\* The key without the version.
sort_key_no_version(net) ==
    LET net_size_bits == width(net.version) - num_bits(size(net))
        host_bits == net.value - first(net)
    IN  <<first(net), net_size_bits, host_bits>>

sort_key(net) ==
    LET net_size_bits == width(net.version) - num_bits(size(net))
        host_bits == net.value - first(net)
    IN  <<net.version, first(net), net_size_bits, host_bits>>

\* Python's < on tuples of integers.
RECURSIVE TupleLess(_, _)
TupleLess(a, b) ==
    IF Len(b) = 0 THEN FALSE
    ELSE IF Len(a) = 0 THEN TRUE
    ELSE IF Head(a) # Head(b) THEN Head(a) < Head(b)
    ELSE TupleLess(Tail(a), Tail(b))

\* The key of every network, computed once.
sort_keys == [net \in Nets |-> sort_key(net)]

\* BaseIP.__lt__
lt(self, other) == TupleLess(sort_keys[self], sort_keys[other])

\* list.sort() / sorted() of IPNetworks: a stable insertion sort under <.
RECURSIVE insort(_, _)
insort(list, net) ==
    IF Len(list) = 0 THEN <<net>>
    ELSE IF lt(net, Head(list)) THEN <<net>> \o list
    ELSE <<Head(list)>> \o insort(Tail(list), net)

RECURSIVE sorted(_)
sorted(list) ==
    IF Len(list) = 0 THEN <<>>
    ELSE insort(sorted(SubSeq(list, 1, Len(list) - 1)), list[Len(list)])

\* The addresses a network covers, tagged with its version.
Addrs(net) == { <<net.version, a>> : a \in first(net)..last(net) }

(***************************************************************************)
(* Results.                                                                *)
(***************************************************************************)
NoResult == [kind |-> "none", nets |-> <<>>, err |-> ""]

Returned(nets) == [kind |-> "list", nets |-> nets, err |-> ""]

Raised(err) == [kind |-> "error", nets |-> <<>>, err |-> err]

\* A function that returns one network or None.
ReturnedNone == [kind |-> "None", nets |-> <<>>, err |-> ""]

(***************************************************************************)
(* IPAddress, and what a call on one object returns.                       *)
(***************************************************************************)
Addr(version, value) == [version |-> version, value |-> value]

\* What a constructor that raised leaves: no address.
NoAddr == Addr(0, 0)

\* Every IPAddress of a version.
AddrsOf(version) == { Addr(version, value) : value \in 0..max_int(version) }

Addresses == AddrsOf(4) \cup AddrsOf(6)

NoRet == [kind |-> "none", val |-> NoAddr, err |-> ""]

ReturnedAddr(ip) == [kind |-> "address", val |-> ip, err |-> ""]

ReturnedBool(b) ==
    [kind |-> IF b THEN "True" ELSE "False", val |-> NoAddr, err |-> ""]

ReturnedNet(net) == [kind |-> "network", val |-> net, err |-> ""]

RaisedBy(err) == [kind |-> "error", val |-> NoAddr, err |-> err]

ReturnedInt(int) == [kind |-> "int", val |-> int, err |-> ""]

\* No call on a single object is in progress.
NoObject ==
    /\ start = NoNet
    /\ end = NoNet
    /\ addr = NoAddr
    /\ subnet = NoNet
    /\ other_obj = NoAddr
    /\ num_arg = 0
    /\ self_before = NoAddr
    /\ ret = NoRet
    /\ args = <<>>
    /\ locals = <<>>


(***************************************************************************)
(* cidr_merge.                                                             *)
(***************************************************************************)
\* RE_CIDR_ADJACENT without its back-reference: ^([01]+)0 [01]+[1]$.
re_cidr_adjacent_no_backref(lhs, rhs) ==
    /\ Len(lhs) >= 2
    /\ Len(rhs) >= 2
    /\ lhs[Len(lhs)] = 0
    /\ rhs[Len(rhs)] = 1

\* RE_CIDR_ADJACENT = ^([01]+)0 \1[1]$ matched against 'lhs rhs'.
re_cidr_adjacent(lhs, rhs) ==
    /\ Len(lhs) >= 2
    /\ Len(rhs) = Len(lhs)
    /\ lhs[Len(lhs)] = 0
    /\ rhs[Len(rhs)] = 1
    /\ SubSeq(lhs, 1, Len(lhs) - 1) = SubSeq(rhs, 1, Len(rhs) - 1)

\* RE_CIDR_WITHIN = ^([01]+) \1[10]+$ matched against 'lhs rhs'.
re_cidr_within(lhs, rhs) ==
    /\ Len(lhs) >= 1
    /\ Len(rhs) > Len(lhs)
    /\ SubSeq(rhs, 1, Len(lhs)) = lhs

\* Python's < on strings of '0' and '1'.
str_lt(a, b) == TupleLess(a, b)

\* list(set) sorted the wrong way round.
RECURSIVE sort_bits_reversed(_)
sort_bits_reversed(set) ==
    IF set = {} THEN <<>>
    ELSE LET most == CHOOSE x \in set : \A y \in set \ {x} : str_lt(y, x)
         IN  <<most>> \o sort_bits_reversed(set \ {most})

\* list(set) followed by list.sort().
RECURSIVE sort_bits(_)
sort_bits(set) ==
    IF set = {} THEN <<>>
    ELSE LET least == CHOOSE x \in set : \A y \in set \ {x} : str_lt(x, y)
         IN  <<least>> \o sort_bits(set \ {least})

\* One run of the inner 'while len(cidrs) > 0' loop of _reduce_bit_cidrs.
RECURSIVE reduce_pass(_, _, _)
reduce_pass(cidrs, new_cidrs, finished) ==
    IF Len(cidrs) = 0
    THEN [new_cidrs |-> new_cidrs, finished |-> finished]
    ELSE LET new1 == IF Len(new_cidrs) = 0
                     THEN Append(new_cidrs, Head(cidrs)) ELSE new_cidrs
             cidrs1 == IF Len(new_cidrs) = 0 THEN Tail(cidrs) ELSE cidrs
         IN  IF Len(cidrs1) = 0
             THEN [new_cidrs |-> new1, finished |-> finished]
             ELSE LET lhs == new1[Len(new1)]
                      rhs == Head(cidrs1)
                      group == SubSeq(lhs, 1, Len(lhs) - 1)
                  IN  IF re_cidr_adjacent(lhs, rhs)
                      THEN reduce_pass(Tail(cidrs1),
                                       [new1 EXCEPT ![Len(new1)] = group],
                                       FALSE)
                      ELSE IF re_cidr_within(lhs, rhs)
                      THEN reduce_pass(Tail(cidrs1), new1, FALSE)
                      ELSE reduce_pass(Tail(cidrs1), Append(new1, rhs),
                                       finished)

\* The outer loop stopping after its first pass.
reduce_loop_one_pass(cidrs) == reduce_pass(cidrs, <<>>, TRUE).new_cidrs

\* The outer 'while 1' loop: passes until one finds nothing to reduce.
RECURSIVE reduce_loop(_)
reduce_loop(cidrs) ==
    LET pass == reduce_pass(cidrs, <<>>, TRUE)
    IN  IF pass.finished THEN pass.new_cidrs
        ELSE reduce_loop(pass.new_cidrs)

\* The special case left out.
whole_space_missing(new_cidrs) == new_cidrs

\* new_cidrs == ['0', '1'] is the whole address space.
whole_space(new_cidrs) == IF new_cidrs = <<<<0>>, <<1>>>> THEN <<<<>>>>
                          ELSE new_cidrs

reduce_bit_cidrs(set) == whole_space(reduce_loop(sort_bits(set)))

\* The prefix length written one short of the number of bits.
bits_to_cidr_short_prefix(bits, version) ==
    IF bits = <<>>
    THEN IPNetworkFromStr(int_to_str(version, 0), 0)
    ELSE LET num == Len(bits)
             padded == bits \o [i \in 1..(width(version) - num) |-> 0]
             ip == int_to_str(version, bits_to_int(padded))
         IN  IPNetworkFromStr(ip, num - 1)

bits_to_cidr(bits, version) ==
    IF bits = <<>>
    THEN IPNetworkFromStr(int_to_str(version, 0), 0)
    ELSE LET num == Len(bits)
             padded == bits \o [i \in 1..(width(version) - num) |-> 0]
             ip == int_to_str(version, bits_to_int(padded))
         IN  IPNetworkFromStr(ip, num)

\* cidr.network.bits(word_sep='')[0:cidr.prefixlen]
prefix_bits(net) ==
    SubSeq(int_to_bits(net.version, network(net)), 1, net.prefixlen)

\* The body of 'for ip in ip_addrs', on the four locals it updates.
merge_add(st, ip) ==
    LET bits == prefix_bits(ip)
    IN  IF ip.version = 4
        THEN LET found == st.ipv4_match_all_found \/ bits = <<>>
                 cleared == IF bits = <<>> THEN {<<>>} ELSE st.ipv4_bit_cidrs
             IN  [st EXCEPT !.ipv4_match_all_found = found,
                            !.ipv4_bit_cidrs =
                                IF found THEN cleared ELSE cleared \cup {bits}]
        ELSE LET found == st.ipv6_match_all_found \/ bits = <<>>
                 cleared == IF bits = <<>> THEN {<<>>} ELSE st.ipv6_bit_cidrs
             IN  [st EXCEPT !.ipv6_match_all_found = found,
                            !.ipv6_bit_cidrs =
                                IF found THEN cleared ELSE cleared \cup {bits}]

\* Only the IPv4 list formatted.
merge_format_ipv4_only(st) ==
    LET r4 == reduce_bit_cidrs(st.ipv4_bit_cidrs)
    IN  [i \in 1..Len(r4) |-> bits_to_cidr(r4[i], 4)]

\* 'Reduce and format lists of reduced CIDRs': IPv4 first, then IPv6.
merge_format(st) ==
    LET r4 == reduce_bit_cidrs(st.ipv4_bit_cidrs)
        r6 == reduce_bit_cidrs(st.ipv6_bit_cidrs)
    IN  [i \in 1..Len(r4) |-> bits_to_cidr(r4[i], 4)]
        \o [i \in 1..Len(r6) |-> bits_to_cidr(r6[i], 6)]

merge_start ==
    [ipv4_bit_cidrs |-> {}, ipv6_bit_cidrs |-> {},
     ipv4_match_all_found |-> FALSE, ipv6_match_all_found |-> FALSE]

RECURSIVE merge_fold(_, _)
merge_fold(st, ip_addrs) ==
    IF Len(ip_addrs) = 0 THEN st
    ELSE merge_fold(merge_add(st, Head(ip_addrs)), Tail(ip_addrs))

\* cidr_merge of a whole list.
cidr_merge(ip_addrs) == merge_format(merge_fold(merge_start, ip_addrs))

merge_locals ==
    [ipv4_bit_cidrs |-> ipv4_bit_cidrs, ipv6_bit_cidrs |-> ipv6_bit_cidrs,
     ipv4_match_all_found |-> ipv4_match_all_found,
     ipv6_match_all_found |-> ipv6_match_all_found]

\* cidr_merge takes the next item of ip_addrs.
MergeAdd(ip) ==
    /\ pc = "merge_loop"
    /\ n_items < MaxItems
    /\ LET st == merge_add(merge_locals, ip)
       IN  /\ ipv4_bit_cidrs' = st.ipv4_bit_cidrs
           /\ ipv6_bit_cidrs' = st.ipv6_bit_cidrs
           /\ ipv4_match_all_found' = st.ipv4_match_all_found
           /\ ipv6_match_all_found' = st.ipv6_match_all_found
    /\ n_items' = n_items + 1
    /\ covered' = covered \cup Addrs(ip)
    /\ UNCHANGED <<pc, op, sorted_ips, target, exclude, result>>
    /\ UNCHANGED object_vars

\* ip_addrs is exhausted: cidr_merge reduces, formats and returns.
MergeReturn ==
    /\ pc = "merge_loop"
    /\ result' = Returned(merge_format(merge_locals))
    /\ pc' = "done"
    /\ UNCHANGED <<op, n_items, covered, ipv4_bit_cidrs, ipv6_bit_cidrs,
                   ipv4_match_all_found, ipv6_match_all_found, sorted_ips,
                   target, exclude>>
    /\ UNCHANGED object_vars

InitMerge ==
    /\ pc = "merge_loop"
    /\ op = "cidr_merge"
    /\ n_items = 0
    /\ covered = {}
    /\ ipv4_bit_cidrs = {}
    /\ ipv6_bit_cidrs = {}
    /\ ipv4_match_all_found = FALSE
    /\ ipv6_match_all_found = FALSE
    /\ sorted_ips = <<>>
    /\ target = NoNet
    /\ exclude = NoNet
    /\ result = NoResult
    /\ NoObject

NextMerge ==
    \/ \E ip \in Nets : MergeAdd(ip)
    \/ MergeReturn

SpecMerge == InitMerge /\ [][NextMerge]_vars


(***************************************************************************)
(* Properties of cidr_merge.                                               *)
(***************************************************************************)
MergeDone == pc = "done" /\ op = "cidr_merge"

\* The input consumed held items of both versions.
MixedInput == (\E p \in covered : p[1] = 4) /\ (\E p \in covered : p[1] = 6)

ResultAddrs == UNION { Addrs(result.nets[i]) : i \in DOMAIN result.nets }

\* Same prefix length >= 1 and the same parent block.
Siblings(a, b) ==
    /\ a.version = b.version
    /\ a.prefixlen = b.prefixlen
    /\ a.prefixlen >= 1
    /\ first(a) # first(b)
    /\ first(a) \div (2 * size(a)) = first(b) \div (2 * size(b))

\* C1: cidr_merge returns networks covering exactly the addresses of its
\* input, per version, and every input address lies in exactly one of them.
C1_MergeCoversExactly ==
    MergeDone =>
        /\ result.kind = "list"
        /\ ResultAddrs = covered
        /\ \A p \in covered :
             Cardinality({ i \in DOMAIN result.nets :
                             p \in Addrs(result.nets[i]) }) = 1

\* A mixed-version input of MaxItems items of which two were merged away.
C1_Witness ==
    /\ MergeDone
    /\ MixedInput
    /\ n_items = MaxItems
    /\ Len(result.nets) = 2
    /\ Cardinality(ipv4_bit_cidrs) = MaxItems - 1

\* C2: the output of cidr_merge is minimal: no output network contains or
\* overlaps another, and no two are siblings that merge into their parent
\* (the two /1 blocks included).
C2_MergeMinimal ==
    MergeDone =>
        \A i, j \in DOMAIN result.nets :
            i # j =>
                /\ ~contains(result.nets[i], result.nets[j])
                /\ Addrs(result.nets[i]) \cap Addrs(result.nets[j]) = {}
                /\ ~Siblings(result.nets[i], result.nets[j])

\* The two IPv4 /1 blocks were given and collapsed into 0.0.0.0/0.
C2_Witness ==
    /\ MergeDone
    /\ ipv4_bit_cidrs = {<<0>>, <<1>>}
    /\ result.nets = <<Net(4, 0, 0)>>

\* C3: cidr_merge(cidr_merge(x)) = cidr_merge(x), as sets of networks.
C3_MergeIdempotent ==
    MergeDone =>
        LET again == cidr_merge(result.nets)
        IN  { again[i] : i \in DOMAIN again }
              = { result.nets[i] : i \in DOMAIN result.nets }

\* A call whose result is shorter than its input and holds two networks.
C3_Witness ==
    /\ MergeDone
    /\ Cardinality(ipv4_bit_cidrs) = 3
    /\ Len(result.nets) = 2

C5_MergeSorted ==
    MergeDone =>
        \A i, j \in DOMAIN result.nets :
            i < j =>
                /\ result.nets[i].version <= result.nets[j].version
                /\ result.nets[i].version = result.nets[j].version
                     => first(result.nets[i]) < first(result.nets[j])
                /\ lt(result.nets[i], result.nets[j])

\* Three networks returned, of both versions.
C5_Witness ==
    /\ MergeDone
    /\ MixedInput
    /\ Len(result.nets) = 3

(***************************************************************************)
(* cidr_exclude.                                                           *)
(***************************************************************************)
\* IPNetwork('%s/%d' % (target._module.int_to_str(i), prefixlen))
subnet_at(version, int, prefixlen) ==
    IPNetworkFromStr(int_to_str(version, int), prefixlen)

\* The loop run as 'while exclude.prefixlen > new_prefixlen'.
RECURSIVE exclude_loop_stops_early(_, _, _, _, _, _)
exclude_loop_stops_early(tgt, exc, new_prefixlen, i_lower, i_upper, cidrs) ==
    LET w == width(tgt.version)
        lower == subnet_at(tgt.version, i_lower, new_prefixlen)
        upper == subnet_at(tgt.version, i_upper, new_prefixlen)
    IN  IF ~(exc.prefixlen > new_prefixlen) THEN cidrs
        ELSE IF ~contains(lower, exc) /\ ~contains(upper, exc)
        THEN Append(cidrs, cidr(tgt))
        ELSE LET matched == IF contains(lower, exc) THEN i_lower ELSE i_upper
                 unmatched == IF contains(lower, exc) THEN i_upper ELSE i_lower
                 ip == subnet_at(tgt.version, unmatched, new_prefixlen)
                 next_prefixlen == new_prefixlen + 1
             IN  IF next_prefixlen > w THEN Append(cidrs, ip)
                 ELSE exclude_loop_stops_early(tgt, exc, next_prefixlen,
                                   matched,
                                   matched + 2 ^ (w - next_prefixlen),
                                   Append(cidrs, ip))

\* The loop 'while exclude.prefixlen >= new_prefixlen' of cidr_exclude;
\* lower and upper are the two halves at i_lower and i_upper.
RECURSIVE exclude_loop(_, _, _, _, _, _)
exclude_loop(tgt, exc, new_prefixlen, i_lower, i_upper, cidrs) ==
    LET w == width(tgt.version)
        lower == subnet_at(tgt.version, i_lower, new_prefixlen)
        upper == subnet_at(tgt.version, i_upper, new_prefixlen)
    IN  IF ~(exc.prefixlen >= new_prefixlen) THEN cidrs
        ELSE IF ~contains(lower, exc) /\ ~contains(upper, exc)
        THEN Append(cidrs, cidr(tgt))
        ELSE LET matched == IF contains(lower, exc) THEN i_lower ELSE i_upper
                 unmatched == IF contains(lower, exc) THEN i_upper ELSE i_lower
                 ip == subnet_at(tgt.version, unmatched, new_prefixlen)
                 next_prefixlen == new_prefixlen + 1
             IN  IF next_prefixlen > w THEN Append(cidrs, ip)
                 ELSE exclude_loop(tgt, exc, next_prefixlen, matched,
                                   matched + 2 ^ (w - next_prefixlen),
                                   Append(cidrs, ip))

cidr_exclude(tgt, exc) ==
    IF last(exc) < first(tgt) THEN Returned(<<cidr(tgt)>>)
    ELSE IF last(tgt) < first(exc) THEN Returned(<<cidr(tgt)>>)
    ELSE LET new_prefixlen == tgt.prefixlen + 1
             w == width(tgt.version)
         IN  IF new_prefixlen <= w
             THEN Returned(sorted(
                     exclude_loop(tgt, exc, new_prefixlen, first(tgt),
                                  first(tgt) + 2 ^ (w - new_prefixlen), <<>>)))
             ELSE Returned(<<>>)

\* cidr_exclude(target, exclude) runs to its return.
CidrExclude ==
    /\ pc = "call"
    /\ op = "cidr_exclude"
    /\ result' = cidr_exclude(target, exclude)
    /\ pc' = "done"
    /\ UNCHANGED <<op, n_items, covered, ipv4_bit_cidrs, ipv6_bit_cidrs,
                   ipv4_match_all_found, ipv6_match_all_found, sorted_ips,
                   target, exclude>>
    /\ UNCHANGED object_vars

InitExclude ==
    /\ pc = "call"
    /\ op = "cidr_exclude"
    /\ n_items = 0
    /\ covered = {}
    /\ ipv4_bit_cidrs = {}
    /\ ipv6_bit_cidrs = {}
    /\ ipv4_match_all_found = FALSE
    /\ ipv6_match_all_found = FALSE
    /\ sorted_ips = <<>>
    /\ target \in Nets
    /\ exclude \in Nets
    /\ result = NoResult
    /\ NoObject

NextExclude == CidrExclude

SpecExclude == InitExclude /\ [][NextExclude]_vars

(***************************************************************************)
(* Properties of cidr_exclude.                                             *)
(***************************************************************************)
ExcludeDone == pc = "done" /\ op = "cidr_exclude"

\* C6: for a same-version pair the networks cidr_exclude returns do not
\* overlap each other, lie inside target, do not intersect exclude, and
\* together with the part of exclude inside target make up target exactly;
\* nothing is returned when exclude contains target.
C6_ExcludeExact ==
    (ExcludeDone /\ target.version = exclude.version) =>
        /\ result.kind = "list"
        /\ \A i, j \in DOMAIN result.nets :
             i # j => Addrs(result.nets[i]) \cap Addrs(result.nets[j]) = {}
        /\ \A i \in DOMAIN result.nets :
             /\ contains(target, result.nets[i])
             /\ Addrs(result.nets[i]) \cap Addrs(exclude) = {}
        /\ ResultAddrs \cup (Addrs(exclude) \cap Addrs(target)) = Addrs(target)
        /\ contains(exclude, target) => result.nets = <<>>

\* A single address cut out of the whole IPv4 space: one network is left
\* per prefix length.
C6_Witness ==
    /\ ExcludeDone
    /\ target.version = 4
    /\ exclude.version = 4
    /\ target.prefixlen = 0
    /\ exclude.prefixlen = Width4
    /\ Len(result.nets) = Width4

\* C7: cidr_exclude with target and exclude of different versions fails
\* with a version-mismatch (type) error and returns no list.
C7_MixedExcludeFails ==
    (ExcludeDone /\ target.version # exclude.version) =>
        (result.kind = "error" /\ result.err = "TypeError")

(***************************************************************************)
(* spanning_cidr.                                                          *)
(***************************************************************************)
\* The loop widening ip while it holds highest_ip but not yet lowest_ip,
\* run as 'while ip.prefixlen > 1'.
RECURSIVE span_widen_stops_at_1(_, _, _)
span_widen_stops_at_1(ip, lowest_ip, highest_ip) ==
    IF ip.prefixlen > 1 /\ contains(ip, highest_ip) /\ ~contains(ip, lowest_ip)
    THEN span_widen_stops_at_1([ip EXCEPT !.prefixlen = ip.prefixlen - 1],
                               lowest_ip, highest_ip)
    ELSE ip

\* 'while ip.prefixlen > 0': ip is widened by one bit while it holds
\* highest_ip and does not hold lowest_ip.
RECURSIVE span_widen(_, _, _)
span_widen(ip, lowest_ip, highest_ip) ==
    IF ip.prefixlen > 0 /\ contains(ip, highest_ip) /\ ~contains(ip, lowest_ip)
    THEN span_widen([ip EXCEPT !.prefixlen = ip.prefixlen - 1],
                    lowest_ip, highest_ip)
    ELSE ip

\* spanning_cidr from its sorted list on.
spanning_cidr(ips) ==
    IF ~(Len(ips) > 1) THEN Raised("ValueError")
    ELSE LET lowest_ip == ips[1]
             highest_ip == ips[Len(ips)]
         IN  IF lowest_ip.version # highest_ip.version
             THEN Raised("TypeError")
             ELSE Returned(<<cidr(span_widen(cidr(highest_ip),
                                             lowest_ip, highest_ip))>>)

\* sorted([IPNetwork(ip) for ip in ip_addrs]) takes one more item: the
\* list is held as sorted() leaves it.
SpanCollect(ip) ==
    /\ pc = "span_collect"
    /\ Len(sorted_ips) < MaxItems
    /\ sorted_ips' = insort(sorted_ips, ip)
    /\ UNCHANGED <<pc, op, n_items, covered, ipv4_bit_cidrs, ipv6_bit_cidrs,
                   ipv4_match_all_found, ipv6_match_all_found,
                   target, exclude, result>>
    /\ UNCHANGED object_vars

\* ip_addrs is exhausted: spanning_cidr runs to its return or raise.
SpanReturn ==
    /\ pc = "span_collect"
    /\ result' = spanning_cidr(sorted_ips)
    /\ pc' = "done"
    /\ UNCHANGED <<op, n_items, covered, ipv4_bit_cidrs, ipv6_bit_cidrs,
                   ipv4_match_all_found, ipv6_match_all_found, sorted_ips,
                   target, exclude>>
    /\ UNCHANGED object_vars

InitSpan ==
    /\ pc = "span_collect"
    /\ op = "spanning_cidr"
    /\ n_items = 0
    /\ covered = {}
    /\ ipv4_bit_cidrs = {}
    /\ ipv6_bit_cidrs = {}
    /\ ipv4_match_all_found = FALSE
    /\ ipv6_match_all_found = FALSE
    /\ sorted_ips = <<>>
    /\ target = NoNet
    /\ exclude = NoNet
    /\ result = NoResult
    /\ NoObject

NextSpan ==
    \/ \E ip \in Nets : SpanCollect(ip)
    \/ SpanReturn

SpecSpan == InitSpan /\ [][NextSpan]_vars

(***************************************************************************)
(* Properties of spanning_cidr.                                            *)
(***************************************************************************)
SpanDone == pc = "done" /\ op = "spanning_cidr"

\* IPNetwork(IPAddress(int, version)): the full-width prefix.
AddrNet(version, int) == Net(version, int, width(version))

SpanItems == { sorted_ips[i] : i \in DOMAIN sorted_ips }

SameVersion == \A a, b \in SpanItems : a.version = b.version

\* The input was the two addresses n.first and n.last.
FirstAndLastOf(n) ==
    /\ Len(sorted_ips) = 2
    /\ sorted_ips[1] = AddrNet(n.version, first(n))
    /\ sorted_ips[2] = AddrNet(n.version, last(n))

\* C8: for every network n, spanning_cidr([n.first, n.last]) is n.cidr.
C8_SpanOfFirstLast ==
    (SpanDone /\ Len(sorted_ips) = 2) =>
        \A n \in Nets : FirstAndLastOf(n) => result = Returned(<<cidr(n)>>)

\* The span of the lowest and highest IPv4 address is 0.0.0.0/0, found
\* from a network given with host bits.
C8_Witness ==
    /\ SpanDone
    /\ FirstAndLastOf(Net(4, 1, 0))
    /\ result = Returned(<<Net(4, 0, 0)>>)

\* C9: for two or more items of one version spanning_cidr returns a block
\* without host bits that contains every item, and no block with a longer
\* prefix contains them all.
C9_SpanSmallestCover ==
    (SpanDone /\ Len(sorted_ips) >= 2 /\ SameVersion) =>
        /\ result.kind = "list"
        /\ Len(result.nets) = 1
        /\ LET span == result.nets[1]
           IN  /\ span.value = first(span)
               /\ \A ip \in SpanItems : contains(span, ip)
               /\ \A b \in NetsOf(span.version) :
                    b.prefixlen > span.prefixlen
                      => \E ip \in SpanItems : ~contains(b, ip)

\* Three items whose largest network is neither the lowest nor the highest
\* of the sorted list.
C9_Witness ==
    /\ SpanDone
    /\ Len(sorted_ips) = 3
    /\ SameVersion
    /\ size(sorted_ips[2]) > size(sorted_ips[1])
    /\ size(sorted_ips[2]) > size(sorted_ips[3])
    /\ result.kind = "list"

\* C10: spanning_cidr fails on fewer than two items, and fails with a type
\* error whenever its items are of both versions, wherever they stand.
C10_SpanFails ==
    SpanDone =>
        /\ Len(sorted_ips) < 2 => result = Raised("ValueError")
        /\ (Len(sorted_ips) >= 2 /\ ~SameVersion) => result = Raised("TypeError")

\* An IPv6 item between or beside IPv4 items of a larger first address.
C10_Witness ==
    /\ SpanDone
    /\ Len(sorted_ips) = 3
    /\ ~SameVersion
    /\ \E i, j \in DOMAIN sorted_ips :
         /\ sorted_ips[i].version = 4
         /\ sorted_ips[j].version = 6
         /\ first(sorted_ips[i]) > first(sorted_ips[j])
    /\ result = Raised("TypeError")

(***************************************************************************)
(* IPAddress arithmetic.                                                   *)
(***************************************************************************)
\* IPAddress(value, version) with an integer value and an explicit version.
IPAddressFromInt(value, version) ==
    IF 0 <= value /\ value <= max_int(version)
    THEN ReturnedAddr(Addr(version, value))
    ELSE RaisedBy("AddrFormatError")

\* IPAddress(net): the copy constructor takes the value as it stands.
IPAddressOf(net) == Addr(net.version, net.value)

\* IPNetwork(ip) of an IPAddress: the copy constructor gives the full width.
IPNetworkOf(ip) == Net(ip.version, ip.value, width(ip.version))

\* The integers handed to the arithmetic operators and to the setters.
Nums == (0 - (max_int(4) + 1))..(max_int(4) + 1)

\* __iadd__ with the test for the upper boundary left out.
iadd_no_upper_check(self, n) ==
    LET new_value == self.value + n
    IN  IF 0 <= new_value
        THEN [self |-> Addr(self.version, new_value),
              ret |-> ReturnedAddr(Addr(self.version, new_value))]
        ELSE [self |-> self, ret |-> RaisedBy("IndexError")]

\* IPAddress.__iadd__: the receiver after the call and what the call gave.
iadd(self, n) ==
    LET new_value == self.value + n
    IN  IF 0 <= new_value /\ new_value <= max_int(self.version)
        THEN [self |-> Addr(self.version, new_value),
              ret |-> ReturnedAddr(Addr(self.version, new_value))]
        ELSE [self |-> self, ret |-> RaisedBy("IndexError")]

\* IPAddress.__isub__
isub(self, n) ==
    LET new_value == self.value - n
    IN  IF 0 <= new_value /\ new_value <= max_int(self.version)
        THEN [self |-> Addr(self.version, new_value),
              ret |-> ReturnedAddr(Addr(self.version, new_value))]
        ELSE [self |-> self, ret |-> RaisedBy("IndexError")]

\* IPAddress.__add__ (and __radd__): a new object, the receiver is not
\* assigned to.
add(self, n) ==
    LET new_value == self.value + n
    IN  IF 0 <= new_value /\ new_value <= max_int(self.version)
        THEN [self |-> self, ret |-> IPAddressFromInt(new_value, self.version)]
        ELSE [self |-> self, ret |-> RaisedBy("IndexError")]

\* IPAddress.__sub__
sub(self, n) ==
    LET new_value == self.value - n
    IN  IF 0 <= new_value /\ new_value <= max_int(self.version)
        THEN [self |-> self, ret |-> IPAddressFromInt(new_value, self.version)]
        ELSE [self |-> self, ret |-> RaisedBy("IndexError")]

\* Python's a & b, a | b and a ^ b for a >= 0 and any integer b: a negative
\* b is the complement of -b - 1 with its sign bits without end.
PyAnd(a, b) == IF b >= 0 THEN BitAnd(a, b) ELSE a - BitAnd(a, (0 - b) - 1)

PyOr(a, b) ==
    IF b >= 0 THEN BitOr(a, b)
    ELSE (0 - (((0 - b) - 1) - BitAnd((0 - b) - 1, a))) - 1

PyXor(a, b) == IF b >= 0 THEN BitXor(a, b) ELSE (0 - BitXor(a, (0 - b) - 1)) - 1

\* IPAddress.__or__, __and__, __xor__: a new address of the receiver's
\* version, made by the constructor from the integer.
address_or(self, n) ==
    [self |-> self, ret |-> IPAddressFromInt(PyOr(self.value, n), self.version)]

address_and(self, n) ==
    [self |-> self, ret |-> IPAddressFromInt(PyAnd(self.value, n), self.version)]

address_xor(self, n) ==
    [self |-> self, ret |-> IPAddressFromInt(PyXor(self.value, n), self.version)]

\* IPAddress.__lshift__ with the constructor's test of the value left out.
lshift_unchecked(self, numbits) ==
    IF numbits < 0 THEN [self |-> self, ret |-> RaisedBy("ValueError")]
    ELSE [self |-> self,
          ret |-> ReturnedAddr(Addr(self.version,
                                    self.value * (2 ^ numbits)))]

\* IPAddress.__lshift__: Python rejects a negative shift count.
lshift(self, numbits) ==
    IF numbits < 0 THEN [self |-> self, ret |-> RaisedBy("ValueError")]
    ELSE [self |-> self,
          ret |-> IPAddressFromInt(self.value * (2 ^ numbits), self.version)]

\* IPAddress.__rshift__
rshift(self, numbits) ==
    IF numbits < 0 THEN [self |-> self, ret |-> RaisedBy("ValueError")]
    ELSE [self |-> self,
          ret |-> IPAddressFromInt(self.value \div (2 ^ numbits),
                                   self.version)]

\* IPAddress.is_hostmask
is_hostmask(self) ==
    LET int_val == self.value + 1
    IN  BitAnd(int_val, int_val - 1) = 0

\* IPAddress.is_netmask
is_netmask(self) ==
    LET int_val == BitXor(self.value, max_int(self.version)) + 1
    IN  BitAnd(int_val, int_val - 1) = 0

\* The loop of netmask_bits: the zero bits below the lowest one bit.
RECURSIVE netmask_bits_loop(_, _)
netmask_bits_loop(i_val, numbits) ==
    IF ~(i_val > 0) THEN numbits
    ELSE IF BitAnd(i_val, 1) = 1 THEN numbits
    ELSE netmask_bits_loop(i_val \div 2, numbits + 1)

\* IPAddress.netmask_bits
netmask_bits(self) ==
    IF ~is_netmask(self) THEN ReturnedInt(width(self.version))
    ELSE LET mask_length == width(self.version)
                              - netmask_bits_loop(self.value, 0)
         IN  IF ~(0 <= mask_length /\ mask_length <= width(self.version))
             THEN RaisedBy("ValueError")
             ELSE ReturnedInt(mask_length)

\* addr += n
AddressIAdd(n) ==
    /\ pc = "object"
    /\ addr # NoAddr
    /\ op' = "IPAddress.__iadd__"
    /\ num_arg' = n
    /\ self_before' = addr
    /\ addr' = iadd(addr, n).self
    /\ ret' = iadd(addr, n).ret
    /\ UNCHANGED <<pc, sorted_ips, result, start, end, subnet, other_obj>>
    /\ UNCHANGED merge_vars
    /\ UNCHANGED locals
    /\ UNCHANGED args

\* addr -= n
AddressISub(n) ==
    /\ pc = "object"
    /\ addr # NoAddr
    /\ op' = "IPAddress.__isub__"
    /\ num_arg' = n
    /\ self_before' = addr
    /\ addr' = isub(addr, n).self
    /\ ret' = isub(addr, n).ret
    /\ UNCHANGED <<pc, sorted_ips, result, start, end, subnet, other_obj>>
    /\ UNCHANGED merge_vars
    /\ UNCHANGED locals
    /\ UNCHANGED args

\* addr + n
AddressAdd(n) ==
    /\ pc = "object"
    /\ addr # NoAddr
    /\ op' = "IPAddress.__add__"
    /\ num_arg' = n
    /\ self_before' = addr
    /\ addr' = add(addr, n).self
    /\ ret' = add(addr, n).ret
    /\ UNCHANGED <<pc, sorted_ips, result, start, end, subnet, other_obj>>
    /\ UNCHANGED merge_vars
    /\ UNCHANGED locals
    /\ UNCHANGED args

\* addr - n
AddressSub(n) ==
    /\ pc = "object"
    /\ addr # NoAddr
    /\ op' = "IPAddress.__sub__"
    /\ num_arg' = n
    /\ self_before' = addr
    /\ addr' = sub(addr, n).self
    /\ ret' = sub(addr, n).ret
    /\ UNCHANGED <<pc, sorted_ips, result, start, end, subnet, other_obj>>
    /\ UNCHANGED merge_vars
    /\ UNCHANGED locals
    /\ UNCHANGED args

\* addr.is_netmask()
AddressIsNetmask ==
    /\ pc = "object"
    /\ addr # NoAddr
    /\ op' = "IPAddress.is_netmask"
    /\ num_arg' = 0
    /\ self_before' = addr
    /\ ret' = ReturnedBool(is_netmask(addr))
    /\ UNCHANGED <<pc, sorted_ips, result, start, end, addr, subnet,
                   other_obj>>
    /\ UNCHANGED merge_vars
    /\ UNCHANGED locals
    /\ UNCHANGED args

\* addr.is_hostmask()
AddressIsHostmask ==
    /\ pc = "object"
    /\ addr # NoAddr
    /\ op' = "IPAddress.is_hostmask"
    /\ num_arg' = 0
    /\ self_before' = addr
    /\ ret' = ReturnedBool(is_hostmask(addr))
    /\ UNCHANGED <<pc, sorted_ips, result, start, end, addr, subnet,
                   other_obj>>
    /\ UNCHANGED merge_vars
    /\ UNCHANGED locals
    /\ UNCHANGED args

\* addr.netmask_bits()
AddressNetmaskBits ==
    /\ pc = "object"
    /\ addr # NoAddr
    /\ op' = "IPAddress.netmask_bits"
    /\ num_arg' = 0
    /\ self_before' = addr
    /\ ret' = netmask_bits(addr)
    /\ UNCHANGED <<pc, sorted_ips, result, start, end, addr, subnet,
                   other_obj>>
    /\ UNCHANGED merge_vars
    /\ UNCHANGED locals
    /\ UNCHANGED args

\* addr | n
AddressOr(n) ==
    /\ pc = "object"
    /\ addr # NoAddr
    /\ op' = "IPAddress.__or__"
    /\ num_arg' = n
    /\ self_before' = addr
    /\ LET called == address_or(addr, n)
       IN  addr' = called.self /\ ret' = called.ret
    /\ UNCHANGED <<pc, sorted_ips, result, start, end, subnet, other_obj>>
    /\ UNCHANGED merge_vars
    /\ UNCHANGED locals
    /\ UNCHANGED args

\* addr & n
AddressAnd(n) ==
    /\ pc = "object"
    /\ addr # NoAddr
    /\ op' = "IPAddress.__and__"
    /\ num_arg' = n
    /\ self_before' = addr
    /\ LET called == address_and(addr, n)
       IN  addr' = called.self /\ ret' = called.ret
    /\ UNCHANGED <<pc, sorted_ips, result, start, end, subnet, other_obj>>
    /\ UNCHANGED merge_vars
    /\ UNCHANGED locals
    /\ UNCHANGED args

\* addr ^ n
AddressXor(n) ==
    /\ pc = "object"
    /\ addr # NoAddr
    /\ op' = "IPAddress.__xor__"
    /\ num_arg' = n
    /\ self_before' = addr
    /\ LET called == address_xor(addr, n)
       IN  addr' = called.self /\ ret' = called.ret
    /\ UNCHANGED <<pc, sorted_ips, result, start, end, subnet, other_obj>>
    /\ UNCHANGED merge_vars
    /\ UNCHANGED locals
    /\ UNCHANGED args

\* addr << n
AddressLshift(n) ==
    /\ pc = "object"
    /\ addr # NoAddr
    /\ op' = "IPAddress.__lshift__"
    /\ num_arg' = n
    /\ self_before' = addr
    /\ LET called == lshift(addr, n)
       IN  addr' = called.self /\ ret' = called.ret
    /\ UNCHANGED <<pc, sorted_ips, result, start, end, subnet, other_obj>>
    /\ UNCHANGED merge_vars
    /\ UNCHANGED locals
    /\ UNCHANGED args

\* addr >> n
AddressRshift(n) ==
    /\ pc = "object"
    /\ addr # NoAddr
    /\ op' = "IPAddress.__rshift__"
    /\ num_arg' = n
    /\ self_before' = addr
    /\ LET called == rshift(addr, n)
       IN  addr' = called.self /\ ret' = called.ret
    /\ UNCHANGED <<pc, sorted_ips, result, start, end, subnet, other_obj>>
    /\ UNCHANGED merge_vars
    /\ UNCHANGED locals
    /\ UNCHANGED args

\* addr = IPAddress(value, version)
InitAddress ==
    /\ pc = "object"
    /\ op = "IPAddress"
    /\ n_items = 0
    /\ covered = {}
    /\ ipv4_bit_cidrs = {}
    /\ ipv6_bit_cidrs = {}
    /\ ipv4_match_all_found = FALSE
    /\ ipv6_match_all_found = FALSE
    /\ sorted_ips = <<>>
    /\ target = NoNet
    /\ exclude = NoNet
    /\ result = NoResult
    /\ start = NoNet
    /\ end = NoNet
    /\ addr \in Addresses
    /\ subnet = NoNet
    /\ other_obj = NoAddr
    /\ num_arg = 0
    /\ self_before = NoAddr
    /\ ret = NoRet
    /\ args = <<>>
    /\ locals = <<>>

NextAddress ==
    \/ \E n \in Nums :
           \/ AddressIAdd(n)
           \/ AddressISub(n)
           \/ AddressAdd(n)
           \/ AddressSub(n)
           \/ AddressOr(n)
           \/ AddressAnd(n)
           \/ AddressXor(n)
           \/ AddressLshift(n)
           \/ AddressRshift(n)
    \/ AddressIsNetmask
    \/ AddressIsHostmask
    \/ AddressNetmaskBits

SpecAddress == InitAddress /\ [][NextAddress]_vars

(***************************************************************************)
(* Properties of IPAddress arithmetic.                                     *)
(***************************************************************************)
\* The last call on addr was one of the four operators.
AddressCalled ==
    /\ pc = "object"
    /\ op \in {"IPAddress.__iadd__", "IPAddress.__isub__",
               "IPAddress.__add__", "IPAddress.__sub__"}

\* The value the last call was to give.
Wanted ==
    IF op \in {"IPAddress.__iadd__", "IPAddress.__add__"}
    THEN self_before.value + num_arg
    ELSE self_before.value - num_arg

InPlace == op \in {"IPAddress.__iadd__", "IPAddress.__isub__"}

\* C19: + - += -= on an Address fail, with an IndexError, exactly when the
\* result is outside 0..max_int, and give an Address of that value and the
\* same version otherwise; a += or -= that fails leaves the value of the
\* receiver as it was and one that succeeds sets it, and + and - never
\* change the receiver.
C19_AddressArithmetic ==
    AddressCalled =>
        /\ (ret.kind = "error")
             <=> (Wanted < 0 \/ Wanted > max_int(self_before.version))
        /\ ret.kind = "error" => ret.err = "IndexError" /\ addr = self_before
        /\ ret.kind # "error"
             => ret = ReturnedAddr(Addr(self_before.version, Wanted))
        /\ (InPlace /\ ret.kind # "error")
             => addr = Addr(self_before.version, Wanted)
        /\ ~InPlace => addr = self_before

\* A += that would step one past max_int failed and left the receiver at
\* the value an earlier -= had given it.
C19_Witness ==
    /\ AddressCalled
    /\ op = "IPAddress.__iadd__"
    /\ Wanted = max_int(addr.version) + 1
    /\ ret = RaisedBy("IndexError")
    /\ addr = self_before
    /\ addr.value > 0
    /\ addr.value < max_int(addr.version)

\* The netmask of a version with p leading one bits.
NetmaskOf(version, p) ==
    BitXor(max_int(version), (2 ^ (width(version) - p)) - 1)

\* C27: for every prefix length p in 0..width the address whose value is
\* the netmask of p leading one bits satisfies is_netmask and netmask_bits
\* returns p, the all-zero mask of p = 0 included; for every value that is
\* not a netmask, netmask_bits returns the width.
C27_NetmaskBits ==
    LET version == addr.version
        masks == { p \in 0..width(version) :
                       addr.value = NetmaskOf(version, p) }
    IN  /\ (pc = "object" /\ op = "IPAddress.is_netmask" /\ masks # {})
               => ret = ReturnedBool(TRUE)
        /\ (pc = "object" /\ op = "IPAddress.netmask_bits")
               => IF masks # {}
                  THEN \A p \in masks : ret = ReturnedInt(p)
                  ELSE ret = ReturnedInt(width(version))

(***************************************************************************)
(* IPAddress.ipv4: the conversion of an address to IPv4.                   *)
(***************************************************************************)
\* The literal 0xffff00000000.
mapped_base == ((2 ^ MappedBits) - 1) * (2 ^ Width4)

\* The literal 0xffffffffffff.
mapped_top == (2 ^ (MappedBits + Width4)) - 1

\* IPAddress.ipv4 reads the value of an IPv6 receiver against _ipv4.max_int
\* and the two literals only, so the IPv6 receivers of the conversion are
\* drawn from every value up to one bit past the literal 0xffffffffffff.
ConvertibleFrom ==
    AddrsOf(4)
      \cup { Addr(6, value) : value \in 0..((2 ^ (MappedBits + Width4 + 1)) - 1) }

ipv4(self) ==
    IF self.version = 4 THEN IPAddressFromInt(self.value, 4)
    ELSE IF 0 <= self.value /\ self.value <= max_int(4)
    THEN IPAddressFromInt(self.value, 4)
    ELSE IF max_int(4) <= self.value /\ self.value <= mapped_top
    THEN IPAddressFromInt(self.value - mapped_base, 4)
    ELSE RaisedBy("AddrConversionError")

\* IPAddress.ipv6: the address of the same value for an IPv6 receiver; for
\* an IPv4 one the IPv4-compatible address is constructed, and then, unless
\* ipv4_compatible is set, the IPv4-mapped one.
ipv6(self, ipv4_compatible) ==
    IF self.version = 6 THEN IPAddressFromInt(self.value, 6)
    ELSE LET compatible == IPAddressFromInt(self.value, 6)
         IN  IF compatible.kind = "error" THEN compatible
             ELSE IF ~ipv4_compatible
             THEN IPAddressFromInt(mapped_base + self.value, 6)
             ELSE compatible

\* addr.ipv6(ipv4_compatible).  Under the widths of the model the IPv6
\* space is the narrower one, and the constructor refuses what does not fit
\* it.
AddressIPv6(ipv4_compatible) ==
    /\ pc = "object"
    /\ addr # NoAddr
    /\ op' = "IPAddress.ipv6"
    /\ num_arg' = 0
    /\ self_before' = addr
    /\ ret' = ipv6(addr, ipv4_compatible)
    /\ UNCHANGED <<pc, sorted_ips, result, start, end, addr, subnet,
                   other_obj>>
    /\ UNCHANGED merge_vars
    /\ UNCHANGED locals
    /\ UNCHANGED args

\* addr.ipv4()
AddressIPv4 ==
    /\ pc = "object"
    /\ addr # NoAddr
    /\ op' = "IPAddress.ipv4"
    /\ num_arg' = 0
    /\ self_before' = addr
    /\ ret' = ipv4(addr)
    /\ UNCHANGED <<pc, sorted_ips, result, start, end, addr, subnet,
                   other_obj>>
    /\ UNCHANGED merge_vars
    /\ UNCHANGED locals
    /\ UNCHANGED args

InitConvert ==
    /\ pc = "object"
    /\ op = "IPAddress"
    /\ n_items = 0
    /\ covered = {}
    /\ ipv4_bit_cidrs = {}
    /\ ipv6_bit_cidrs = {}
    /\ ipv4_match_all_found = FALSE
    /\ ipv6_match_all_found = FALSE
    /\ sorted_ips = <<>>
    /\ target = NoNet
    /\ exclude = NoNet
    /\ result = NoResult
    /\ start = NoNet
    /\ end = NoNet
    /\ addr \in ConvertibleFrom
    /\ subnet = NoNet
    /\ other_obj = NoAddr
    /\ num_arg = 0
    /\ self_before = NoAddr
    /\ ret = NoRet
    /\ args = <<>>
    /\ locals = <<>>

NextConvert == AddressIPv4

SpecConvert == InitConvert /\ [][NextConvert]_vars

(***************************************************************************)
(* Properties of IPAddress.ipv4.                                           *)
(***************************************************************************)
\* C20: the conversion of an IPv6 address to IPv4 gives the address of the
\* same value when the value is in 0..2^32-1, the address of value -
\* 0xffff00000000 when the value is in 0xffff00000000..0xffffffffffff, and
\* fails with AddrConversionError, and no other error, for every other
\* value, those between 2^32 and 0xfffeffffffff included.
C20_ConvertOrConversionError ==
    (pc = "object" /\ op = "IPAddress.ipv4" /\ addr.version = 6) =>
        IF addr.value <= max_int(4)
        THEN ret = ReturnedAddr(Addr(4, addr.value))
        ELSE IF mapped_base <= addr.value /\ addr.value <= mapped_top
        THEN ret = ReturnedAddr(Addr(4, addr.value - mapped_base))
        ELSE ret = RaisedBy("AddrConversionError")

(***************************************************************************)
(* iprange_to_cidrs.                                                       *)
(***************************************************************************)
\* 'Fix start': the items of cidr_remainder from the first one whose first
\* address is first_int_val on.
RECURSIVE fix_start(_, _, _)
fix_start(cidr_remainder, first_int_val, first_found) ==
    IF Len(cidr_remainder) = 0 THEN <<>>
    ELSE LET c == Head(cidr_remainder)
             found == first_found \/ first(c) = first_int_val
         IN  (IF found THEN <<c>> ELSE <<>>)
               \o fix_start(Tail(cidr_remainder), first_int_val, found)

\* 'Fix end' without its break: every item of cidr_remainder is kept.
fix_end_no_break(cidr_remainder, last_int_val) == cidr_remainder

\* 'Fix end': the items of cidr_remainder up to and including the first one
\* whose last address is last_int_val.
RECURSIVE fix_end(_, _)
fix_end(cidr_remainder, last_int_val) ==
    IF Len(cidr_remainder) = 0 THEN <<>>
    ELSE LET c == Head(cidr_remainder)
         IN  IF last(c) = last_int_val THEN <<c>>
             ELSE <<c>> \o fix_end(Tail(cidr_remainder), last_int_val)

\* cidr_list.pop() that leaves the item in the list.
list_after_pop_keeps(cidr_list) == cidr_list

\* What cidr_list.pop() leaves of a list that is not empty.
list_after_pop(cidr_list) == SubSeq(cidr_list, 1, Len(cidr_list) - 1)

\* The branch of iprange_to_cidrs whose spanning CIDR matches end exactly.
range_fix_start(cidr_span, start_net) ==
    LET ip == isub(IPAddressOf(start_net), 1)
    IN  IF ip.ret.kind = "error" THEN Raised(ip.ret.err)
        ELSE Returned(fix_start(
                cidr_exclude(cidr_span, IPNetworkOf(ip.self)).nets,
                start_net.value, FALSE))

\* The branch whose spanning CIDR matches start exactly, and the second
\* half of the branch that overlaps both: target is cut at the address after
\* end and the pieces up to end are added to cidr_list.
range_fix_end(cidr_list, tgt, end_net) ==
    LET ip == iadd(IPAddressOf(end_net), 1)
    IN  IF ip.ret.kind = "error" THEN Raised(ip.ret.err)
        ELSE Returned(cidr_list
                \o fix_end(cidr_exclude(tgt, IPNetworkOf(ip.self)).nets,
                           end_net.value))

iprange_to_cidrs(start_net, end_net) ==
    LET iprange == <<first(start_net), last(end_net)>>
        span == spanning_cidr(sorted(<<start_net, end_net>>))
    IN  IF span.kind = "error" THEN span
        ELSE LET cidr_span == span.nets[1]
             IN  IF first(cidr_span) = iprange[1]
                      /\ last(cidr_span) = iprange[2]
                 THEN Returned(<<cidr_span>>)
                 ELSE IF last(cidr_span) = iprange[2]
                 THEN range_fix_start(cidr_span, start_net)
                 ELSE IF first(cidr_span) = iprange[1]
                 THEN range_fix_end(<<>>, cidr_span, end_net)
                 ELSE IF first(cidr_span) <= iprange[1]
                           /\ last(cidr_span) >= iprange[2]
                 THEN LET fixed == range_fix_start(cidr_span, start_net)
                      IN  IF fixed.kind = "error" THEN fixed
                          ELSE IF Len(fixed.nets) = 0
                          THEN Raised("IndexError")
                          ELSE range_fix_end(list_after_pop(fixed.nets),
                                             fixed.nets[Len(fixed.nets)],
                                             end_net)
                 ELSE Returned(<<>>)

\* iprange_to_cidrs(start, end) runs to its return or raise.
IprangeToCidrs ==
    /\ pc = "call"
    /\ op = "iprange_to_cidrs"
    /\ result' = iprange_to_cidrs(start, end)
    /\ pc' = "done"
    /\ UNCHANGED <<op, sorted_ips, start, end, addr, subnet, other_obj,
                   num_arg, self_before, ret>>
    /\ UNCHANGED merge_vars
    /\ UNCHANGED locals
    /\ UNCHANGED args

\* start and end are handed over as IPNetworks: an address has the full
\* width as its prefix length.
InitRange ==
    /\ pc = "call"
    /\ op = "iprange_to_cidrs"
    /\ n_items = 0
    /\ covered = {}
    /\ ipv4_bit_cidrs = {}
    /\ ipv6_bit_cidrs = {}
    /\ ipv4_match_all_found = FALSE
    /\ ipv6_match_all_found = FALSE
    /\ sorted_ips = <<>>
    /\ target = NoNet
    /\ exclude = NoNet
    /\ result = NoResult
    /\ start \in Nets
    /\ end \in Nets
    /\ addr = NoAddr
    /\ subnet = NoNet
    /\ other_obj = NoAddr
    /\ num_arg = 0
    /\ self_before = NoAddr
    /\ ret = NoRet
    /\ args = <<>>
    /\ locals = <<>>

NextRange == IprangeToCidrs

SpecRange == InitRange /\ [][NextRange]_vars

(***************************************************************************)
(* Properties of iprange_to_cidrs.                                         *)
(***************************************************************************)
RangeDone == pc = "done" /\ op = "iprange_to_cidrs"

\* start and end are addresses of one version, start <= end.
AddressPair ==
    /\ start.version = end.version
    /\ start.prefixlen = width(start.version)
    /\ end.prefixlen = width(end.version)
    /\ start.value <= end.value

\* start and end are of one version, at least one of them a subnet, and
\* start begins and ends no later than end does.
SubnetPair ==
    /\ start.version = end.version
    /\ (start.prefixlen < width(start.version)
          \/ end.prefixlen < width(end.version))
    /\ first(start) <= first(end)
    /\ last(start) <= last(end)

\* The addresses from start.first to end.last.
Interval == { <<start.version, a>> : a \in first(start)..last(end) }

\* first is a multiple of size, size a power of two, no host bits.
Aligned(n) ==
    /\ n.value = first(n)
    /\ size(n) = 2 ^ (width(n.version) - n.prefixlen)
    /\ first(n) % size(n) = 0

\* C11: for addresses start <= end of one version iprange_to_cidrs returns
\* aligned networks, no two overlapping, whose union is the interval from
\* start to end: the smallest first is start, the largest last is end and
\* every address between is covered.
C11_RangeExactCover ==
    (RangeDone /\ AddressPair) =>
        /\ result.kind = "list"
        /\ \A i \in DOMAIN result.nets : Aligned(result.nets[i])
        /\ \A i, j \in DOMAIN result.nets :
             i # j => Addrs(result.nets[i]) \cap Addrs(result.nets[j]) = {}
        /\ ResultAddrs = Interval
        /\ \E i \in DOMAIN result.nets : first(result.nets[i]) = start.value
        /\ \E i \in DOMAIN result.nets : last(result.nets[i]) = end.value

\* A range that starts above the first and ends below the last address of
\* its spanning block, so that both ends are trimmed.
C11_Witness ==
    /\ RangeDone
    /\ AddressPair
    /\ start.version = 4
    /\ start.value = 1
    /\ end.value = max_int(4) - 1
    /\ Len(result.nets) >= 2

\* C12: for addresses start <= end the networks iprange_to_cidrs returns
\* are minimal: no two are siblings and cidr_merge of them returns the same
\* set of networks.
C12_RangeMinimal ==
    (RangeDone /\ AddressPair) =>
        /\ result.kind = "list"
        /\ \A i, j \in DOMAIN result.nets :
             i # j => ~Siblings(result.nets[i], result.nets[j])
        /\ LET merged == cidr_merge(result.nets)
           IN  /\ Len(merged) = Len(result.nets)
               /\ { merged[i] : i \in DOMAIN merged }
                    = { result.nets[i] : i \in DOMAIN result.nets }

\* A range ending below the last address of its block: the block's upper
\* part was cut into pieces, of which the range keeps two or more.
C12_Witness ==
    /\ RangeDone
    /\ AddressPair
    /\ start.version = 4
    /\ start.value = 0
    /\ end.value = max_int(4) - 1
    /\ Len(result.nets) >= 2

\* C13: when start or end is a subnet, iprange_to_cidrs returns networks,
\* no two overlapping, that cover exactly the addresses from start.first to
\* end.last.
C13_SubnetRangeExactCover ==
    (RangeDone /\ SubnetPair) =>
        /\ result.kind = "list"
        /\ \A i, j \in DOMAIN result.nets :
             i # j => Addrs(result.nets[i]) \cap Addrs(result.nets[j]) = {}
        /\ ResultAddrs = Interval

(***************************************************************************)
(* smallest_matching_cidr, largest_matching_cidr, all_matching_cidrs.      *)
(***************************************************************************)
\* 'ip in cidr' for an IPAddress ip: IPNetwork.__contains__ makes the
\* address an IPNetwork('%s/%d' % (ip, width)) first.
contains_addr(self, ip) ==
    contains(self, IPNetworkFromStr(int_to_str(ip.version, ip.value),
                                    width(ip.version)))

\* The loop of smallest_matching_cidr over the sorted list; match is <<>>
\* for None and <<cidr>> otherwise.
RECURSIVE smallest_scan(_, _, _)
smallest_scan(ip, cidrs, match) ==
    IF Len(cidrs) = 0 THEN match
    ELSE IF contains_addr(Head(cidrs), ip)
    THEN smallest_scan(ip, Tail(cidrs), <<Head(cidrs)>>)
    ELSE IF match # <<>> THEN match
    ELSE smallest_scan(ip, Tail(cidrs), match)

smallest_matching_cidr(ip, cidrs) ==
    LET match == smallest_scan(ip, cidrs, <<>>)
    IN  IF match = <<>> THEN ReturnedNone ELSE Returned(match)

\* The loop of largest_matching_cidr without its break.
RECURSIVE largest_scan_no_break(_, _, _)
largest_scan_no_break(ip, cidrs, match) ==
    IF Len(cidrs) = 0 THEN match
    ELSE IF contains_addr(Head(cidrs), ip)
    THEN largest_scan_no_break(ip, Tail(cidrs), <<Head(cidrs)>>)
    ELSE largest_scan_no_break(ip, Tail(cidrs), match)

\* The loop of largest_matching_cidr over the sorted list.
RECURSIVE largest_scan(_, _, _)
largest_scan(ip, cidrs, match) ==
    IF Len(cidrs) = 0 THEN match
    ELSE IF contains_addr(Head(cidrs), ip) THEN <<Head(cidrs)>>
    ELSE largest_scan(ip, Tail(cidrs), match)

largest_matching_cidr(ip, cidrs) ==
    LET match == largest_scan(ip, cidrs, <<>>)
    IN  IF match = <<>> THEN ReturnedNone ELSE Returned(match)

\* The loop of all_matching_cidrs over the sorted list.
RECURSIVE all_scan(_, _, _)
all_scan(ip, cidrs, matches) ==
    IF Len(cidrs) = 0 THEN matches
    ELSE IF contains_addr(Head(cidrs), ip)
    THEN all_scan(ip, Tail(cidrs), Append(matches, Head(cidrs)))
    ELSE IF matches # <<>> THEN matches
    ELSE all_scan(ip, Tail(cidrs), matches)

all_matching_cidrs(ip, cidrs) == Returned(all_scan(ip, cidrs, <<>>))

\* sorted([IPNetwork(cidr) for cidr in cidrs]) takes one more candidate.
MatchCollect(c) ==
    /\ pc = "match_collect"
    /\ Len(sorted_ips) < MaxItems
    /\ sorted_ips' = insort(sorted_ips, c)
    /\ UNCHANGED <<pc, op, result>>
    /\ UNCHANGED object_vars
    /\ UNCHANGED merge_vars

\* The call was smallest_matching_cidr(addr, cidrs).
SmallestMatchingCidr ==
    /\ pc = "match_collect"
    /\ op' = "smallest_matching_cidr"
    /\ result' = smallest_matching_cidr(addr, sorted_ips)
    /\ pc' = "done"
    /\ UNCHANGED sorted_ips
    /\ UNCHANGED object_vars
    /\ UNCHANGED merge_vars

\* The call was largest_matching_cidr(addr, cidrs).
LargestMatchingCidr ==
    /\ pc = "match_collect"
    /\ op' = "largest_matching_cidr"
    /\ result' = largest_matching_cidr(addr, sorted_ips)
    /\ pc' = "done"
    /\ UNCHANGED sorted_ips
    /\ UNCHANGED object_vars
    /\ UNCHANGED merge_vars

\* The call was all_matching_cidrs(addr, cidrs).
AllMatchingCidrs ==
    /\ pc = "match_collect"
    /\ op' = "all_matching_cidrs"
    /\ result' = all_matching_cidrs(addr, sorted_ips)
    /\ pc' = "done"
    /\ UNCHANGED sorted_ips
    /\ UNCHANGED object_vars
    /\ UNCHANGED merge_vars

InitMatch ==
    /\ pc = "match_collect"
    /\ op = "matching_cidr"
    /\ n_items = 0
    /\ covered = {}
    /\ ipv4_bit_cidrs = {}
    /\ ipv6_bit_cidrs = {}
    /\ ipv4_match_all_found = FALSE
    /\ ipv6_match_all_found = FALSE
    /\ sorted_ips = <<>>
    /\ target = NoNet
    /\ exclude = NoNet
    /\ result = NoResult
    /\ start = NoNet
    /\ end = NoNet
    /\ addr \in Addresses
    /\ subnet = NoNet
    /\ other_obj = NoAddr
    /\ num_arg = 0
    /\ self_before = NoAddr
    /\ ret = NoRet
    /\ args = <<>>
    /\ locals = <<>>

NextMatch ==
    \/ \E c \in Nets : MatchCollect(c)
    \/ SmallestMatchingCidr
    \/ LargestMatchingCidr
    \/ AllMatchingCidrs

SpecMatch == InitMatch /\ [][NextMatch]_vars

(***************************************************************************)
(* Properties of the matching functions.                                   *)
(***************************************************************************)
MatchDone(f) == pc = "done" /\ op = f

\* The positions of the candidates that contain addr.
Matching == { i \in DOMAIN sorted_ips : contains_addr(sorted_ips[i], addr) }

\* C14: smallest_matching_cidr returns a candidate that contains the
\* address and is no larger than any other candidate containing it, and
\* None only when no candidate contains it.
C14_SmallestMatch ==
    MatchDone("smallest_matching_cidr") =>
        IF Matching = {} THEN result = ReturnedNone
        ELSE /\ result.kind = "list"
             /\ \E i \in Matching : result.nets = <<sorted_ips[i]>>
             /\ \A i \in Matching :
                  size(result.nets[1]) <= size(sorted_ips[i])

\* C15: all_matching_cidrs returns every candidate that contains the
\* address and no other, also when a candidate that does not contain it
\* sorts between two that do.
C15_AllMatches ==
    MatchDone("all_matching_cidrs") =>
        /\ result.kind = "list"
        /\ result.nets = SelectSeq(sorted_ips, LAMBDA c : contains_addr(c, addr))

\* C16: largest_matching_cidr returns a candidate that contains the address
\* and is no smaller than any other candidate containing it, and None when
\* no candidate contains it.
C16_LargestMatch ==
    MatchDone("largest_matching_cidr") =>
        IF Matching = {} THEN result = ReturnedNone
        ELSE /\ result.kind = "list"
             /\ \E i \in Matching : result.nets = <<sorted_ips[i]>>
             /\ \A i \in Matching :
                  size(result.nets[1]) >= size(sorted_ips[i])

\* Two candidates of different size contain the address and a candidate
\* that does not contain it sorts between them.
C16_Witness ==
    /\ MatchDone("largest_matching_cidr")
    /\ Len(sorted_ips) = 3
    /\ Matching = {1, 3}
    /\ size(sorted_ips[1]) > size(sorted_ips[3])
    /\ result = Returned(<<sorted_ips[1]>>)

(***************************************************************************)
(* The ordering of IPAddress and IPNetwork objects.                        *)
(***************************************************************************)
\* IPAddress.sort_key without the width.
address_sort_key_no_width(ip) == <<ip.version, ip.value>>

\* IPAddress.sort_key
address_sort_key(ip) == <<ip.version, ip.value, width(ip.version)>>

\* An object is an IPNetwork (it has _prefixlen) or an IPAddress.
is_network(obj) == "prefixlen" \in DOMAIN obj

\* other.sort_key() of either class.
object_sort_key(obj) ==
    IF is_network(obj) THEN sort_key(obj) ELSE address_sort_key(obj)

Objects == Addresses \cup Nets

\* addr < other
AddressLt ==
    /\ pc = "call"
    /\ op = "__lt__"
    /\ addr # NoAddr
    /\ ret' = ReturnedBool(TupleLess(address_sort_key(addr),
                                     object_sort_key(other_obj)))
    /\ pc' = "done"
    /\ UNCHANGED <<op, sorted_ips, result, start, end, addr, subnet,
                   other_obj, num_arg, self_before>>
    /\ UNCHANGED merge_vars
    /\ UNCHANGED locals
    /\ UNCHANGED args

\* subnet < other
NetworkLt ==
    /\ pc = "call"
    /\ op = "__lt__"
    /\ subnet # NoNet
    /\ ret' = ReturnedBool(TupleLess(sort_key(subnet),
                                     object_sort_key(other_obj)))
    /\ pc' = "done"
    /\ UNCHANGED <<op, sorted_ips, result, start, end, addr, subnet,
                   other_obj, num_arg, self_before>>
    /\ UNCHANGED merge_vars
    /\ UNCHANGED locals
    /\ UNCHANGED args

\* The receiver is an IPAddress or an IPNetwork, and so is other.
InitSort ==
    /\ pc = "call"
    /\ op = "__lt__"
    /\ n_items = 0
    /\ covered = {}
    /\ ipv4_bit_cidrs = {}
    /\ ipv6_bit_cidrs = {}
    /\ ipv4_match_all_found = FALSE
    /\ ipv6_match_all_found = FALSE
    /\ sorted_ips = <<>>
    /\ target = NoNet
    /\ exclude = NoNet
    /\ result = NoResult
    /\ start = NoNet
    /\ end = NoNet
    /\ \/ addr \in Addresses /\ subnet = NoNet
       \/ addr = NoAddr /\ subnet \in Nets
    /\ other_obj \in Objects
    /\ num_arg = 0
    /\ self_before = NoAddr
    /\ ret = NoRet
    /\ args = <<>>
    /\ locals = <<>>

NextSort == AddressLt \/ NetworkLt

SpecSort == InitSort /\ [][NextSort]_vars

(***************************************************************************)
(* Properties of the ordering.                                             *)
(***************************************************************************)
SortDone == pc = "done" /\ op = "__lt__"

\* A network and an address of its version whose value is the network's
\* first address.
StartsAt(n, ip) ==
    /\ is_network(n)
    /\ ~is_network(ip)
    /\ n.version = ip.version
    /\ first(n) = ip.value

\* Two networks of one version with the same first address, big the larger.
LargerAtSameFirst(big, small) ==
    /\ is_network(big)
    /\ is_network(small)
    /\ big.version = small.version
    /\ first(big) = first(small)
    /\ big.prefixlen < small.prefixlen

network_iadd(self, n) ==
    LET new_value == network(self) + (size(self) * n)
        moved == [self EXCEPT !.value = new_value]
    IN  IF (new_value + (size(self) - 1)) > max_int(self.version)
        THEN [self |-> self, ret |-> RaisedBy("IndexError")]
        ELSE IF new_value < 0
        THEN [self |-> self, ret |-> RaisedBy("IndexError")]
        ELSE [self |-> moved, ret |-> ReturnedNet(moved)]

\* IPNetwork.__isub__ without its test of the lower boundary.
network_isub_no_lower_check(self, n) ==
    LET new_value == network(self) - (size(self) * n)
        moved == [self EXCEPT !.value = new_value]
    IN  IF (new_value + (size(self) - 1)) > max_int(self.version)
        THEN [self |-> self, ret |-> RaisedBy("IndexError")]
        ELSE [self |-> moved, ret |-> ReturnedNet(moved)]

\* IPNetwork.__isub__
network_isub(self, n) ==
    LET new_value == network(self) - (size(self) * n)
        moved == [self EXCEPT !.value = new_value]
    IN  IF new_value < 0
        THEN [self |-> self, ret |-> RaisedBy("IndexError")]
        ELSE IF (new_value + (size(self) - 1)) > max_int(self.version)
        THEN [self |-> self, ret |-> RaisedBy("IndexError")]
        ELSE [self |-> moved, ret |-> ReturnedNet(moved)]

\* IPNetwork._set_prefixlen with an integer.
set_prefixlen(self, n) ==
    IF 0 <= n /\ n <= width(self.version)
    THEN [self |-> [self EXCEPT !.prefixlen = n], ret |-> NoRet]
    ELSE [self |-> self, ret |-> RaisedBy("AddrFormatError")]

\* IPNetwork._set_value with an integer, the version known.
set_value(self, n) ==
    IF 0 <= n /\ n <= max_int(self.version)
    THEN [self |-> [self EXCEPT !.value = n], ret |-> NoRet]
    ELSE [self |-> self, ret |-> RaisedBy("AddrFormatError")]

\* IPNetwork.previous: a copy made from the text of the network address
\* and the prefix length, moved back by step.
network_previous(self, step) ==
    LET ip_copy == IPNetworkImplicit(int_to_str(self.version, network(self)),
                                     self.prefixlen)
    IN  [self |-> self, ret |-> network_isub(ip_copy, step).ret]

\* IPNetwork.next
network_next(self, step) ==
    LET ip_copy == IPNetworkImplicit(int_to_str(self.version, network(self)),
                                     self.prefixlen)
    IN  [self |-> self, ret |-> network_iadd(ip_copy, step).ret]

\* subnet += n
NetworkIAdd(n) ==
    /\ pc = "object"
    /\ subnet # NoNet
    /\ op' = "IPNetwork.__iadd__"
    /\ num_arg' = n
    /\ LET called == network_iadd(subnet, n)
       IN  subnet' = called.self /\ ret' = called.ret
    /\ self_before' = subnet
    /\ UNCHANGED <<pc, sorted_ips, result, start, end, addr, other_obj>>
    /\ UNCHANGED merge_vars
    /\ UNCHANGED locals
    /\ UNCHANGED args

\* subnet -= n
NetworkISub(n) ==
    /\ pc = "object"
    /\ subnet # NoNet
    /\ op' = "IPNetwork.__isub__"
    /\ num_arg' = n
    /\ LET called == network_isub(subnet, n)
       IN  subnet' = called.self /\ ret' = called.ret
    /\ self_before' = subnet
    /\ UNCHANGED <<pc, sorted_ips, result, start, end, addr, other_obj>>
    /\ UNCHANGED merge_vars
    /\ UNCHANGED locals
    /\ UNCHANGED args

\* subnet.prefixlen = n
NetworkSetPrefixlen(n) ==
    /\ pc = "object"
    /\ subnet # NoNet
    /\ op' = "IPNetwork.prefixlen"
    /\ num_arg' = n
    /\ LET called == set_prefixlen(subnet, n)
       IN  subnet' = called.self /\ ret' = called.ret
    /\ self_before' = subnet
    /\ UNCHANGED <<pc, sorted_ips, result, start, end, addr, other_obj>>
    /\ UNCHANGED merge_vars
    /\ UNCHANGED locals
    /\ UNCHANGED args

\* subnet.value = n
NetworkSetValue(n) ==
    /\ pc = "object"
    /\ subnet # NoNet
    /\ op' = "IPNetwork.value"
    /\ num_arg' = n
    /\ LET called == set_value(subnet, n)
       IN  subnet' = called.self /\ ret' = called.ret
    /\ self_before' = subnet
    /\ UNCHANGED <<pc, sorted_ips, result, start, end, addr, other_obj>>
    /\ UNCHANGED merge_vars
    /\ UNCHANGED locals
    /\ UNCHANGED args

\* subnet.previous(n)
NetworkPrevious(n) ==
    /\ pc = "object"
    /\ subnet # NoNet
    /\ op' = "IPNetwork.previous"
    /\ num_arg' = n
    /\ LET called == network_previous(subnet, n)
       IN  subnet' = called.self /\ ret' = called.ret
    /\ self_before' = subnet
    /\ UNCHANGED <<pc, sorted_ips, result, start, end, addr, other_obj>>
    /\ UNCHANGED merge_vars
    /\ UNCHANGED locals
    /\ UNCHANGED args

\* subnet.next(n)
NetworkNext(n) ==
    /\ pc = "object"
    /\ subnet # NoNet
    /\ op' = "IPNetwork.next"
    /\ num_arg' = n
    /\ LET called == network_next(subnet, n)
       IN  subnet' = called.self /\ ret' = called.ret
    /\ self_before' = subnet
    /\ UNCHANGED <<pc, sorted_ips, result, start, end, addr, other_obj>>
    /\ UNCHANGED merge_vars
    /\ UNCHANGED locals
    /\ UNCHANGED args

\* subnet = IPNetwork(...): any value and any prefix length of a version.
InitNetwork ==
    /\ pc = "object"
    /\ op = "IPNetwork"
    /\ n_items = 0
    /\ covered = {}
    /\ ipv4_bit_cidrs = {}
    /\ ipv6_bit_cidrs = {}
    /\ ipv4_match_all_found = FALSE
    /\ ipv6_match_all_found = FALSE
    /\ sorted_ips = <<>>
    /\ target = NoNet
    /\ exclude = NoNet
    /\ result = NoResult
    /\ start = NoNet
    /\ end = NoNet
    /\ addr = NoAddr
    /\ subnet \in Nets
    /\ other_obj = NoAddr
    /\ num_arg = 0
    /\ self_before = NoAddr
    /\ ret = NoRet
    /\ args = <<>>
    /\ locals = <<>>

NextNetwork ==
    \E n \in Nums :
        \/ NetworkIAdd(n)
        \/ NetworkISub(n)
        \/ NetworkSetPrefixlen(n)
        \/ NetworkSetValue(n)
        \/ NetworkPrevious(n)
        \/ NetworkNext(n)

SpecNetwork == InitNetwork /\ [][NextNetwork]_vars

(***************************************************************************)
(* Properties of an IPNetwork object.                                      *)
(***************************************************************************)
\* C18: for every network n, of any value and prefix length: first <= last,
\* size = last - first + 1 = 2^(width - prefixlen), network | hostmask =
\* broadcast, first is a multiple of size, and first <= value <= last.
C18_NetworkBounds ==
    (pc = "object" /\ subnet # NoNet) =>
        /\ first(subnet) <= last(subnet)
        /\ size(subnet) = (last(subnet) - first(subnet)) + 1
        /\ size(subnet) = 2 ^ (width(subnet.version) - subnet.prefixlen)
        /\ BitOr(network(subnet), hostmask(subnet)) = broadcast(subnet)
        /\ first(subnet) % size(subnet) = 0
        /\ first(subnet) <= subnet.value
        /\ subnet.value <= last(subnet)

\* The value of a network was set to one with host bits, its prefix being
\* neither empty nor full.
C18_Witness ==
    /\ pc = "object"
    /\ op = "IPNetwork.value"
    /\ ret.kind = "none"
    /\ subnet.prefixlen > 0
    /\ subnet.prefixlen < width(subnet.version)
    /\ subnet.value # first(subnet)
    /\ first(subnet) > 0
    /\ last(subnet) < max_int(subnet.version)

\* The call moved a network by whole blocks: in place, or as a copy.
ShiftInPlace == op \in {"IPNetwork.__iadd__", "IPNetwork.__isub__"}

ShiftCopy == op \in {"IPNetwork.next", "IPNetwork.previous"}

\* The first address of the block the call asks for.
ShiftedFirst ==
    IF op \in {"IPNetwork.__iadd__", "IPNetwork.next"}
    THEN first(self_before) + (num_arg * size(self_before))
    ELSE first(self_before) - (num_arg * size(self_before))

\* C24: next(step) and previous(step) return a new network of the same
\* prefix length whose first address is the receiver's first +- step * size
\* and leave the receiver unchanged; n += k and n -= k move the receiver to
\* the aligned address first +- k * size keeping the prefix length; when
\* the block would start below 0 or end above max_int the call fails with a
\* boundary error and the receiver's value and prefix length are unchanged.
C24_NetworkShift ==
    (pc = "object" /\ (ShiftInPlace \/ ShiftCopy)) =>
        LET n == self_before
            shifted == Net(n.version, ShiftedFirst, n.prefixlen)
        IN  IF ShiftedFirst < 0
               \/ ShiftedFirst + (size(n) - 1) > max_int(n.version)
            THEN /\ ret.kind = "error"
                 /\ ret.err = "IndexError"
                 /\ subnet = n
            ELSE /\ ret = ReturnedNet(shifted)
                 /\ ShiftCopy => subnet = n
                 /\ ShiftInPlace => subnet = shifted

\* previous() of a network with host bits gave the block two before it,
\* which starts above 0.
C24_Witness ==
    /\ pc = "object"
    /\ op = "IPNetwork.previous"
    /\ num_arg = 2
    /\ ret.kind = "network"
    /\ first(ret.val) > 0
    /\ size(ret.val) > 1
    /\ self_before.value # first(self_before)
    /\ subnet = self_before

(***************************************************************************)
(* IPNetwork.subnet.                                                       *)
(***************************************************************************)
\* The i-th subnet with its value left at the base address.
subnet_item_at_base(self, prefixlen, i) ==
    IPNetworkImplicit(int_to_str(self.version, first(self)), prefixlen)

\* The body of the loop of subnet: the i-th subnet it yields.
subnet_item(self, prefixlen, i) ==
    LET made == IPNetworkImplicit(int_to_str(self.version, first(self)),
                                  prefixlen)
        moved == set_value(made, made.value + (size(made) * i)).self
    IN  set_prefixlen(moved, prefixlen).self

\* list(self.subnet(prefixlen, count)); count is <<>> for the default None
\* and <<c>> for an integer.  A generator that raises StopIteration ends
\* and has yielded nothing.
network_subnet(self, prefixlen, count) ==
    IF ~(0 <= self.prefixlen /\ self.prefixlen <= width(self.version))
    THEN Raised("ValueError")
    ELSE IF ~(self.prefixlen <= prefixlen)
    THEN Returned(<<>>)
    ELSE IF prefixlen > width(self.version)
    THEN \* max_subnets is a float: xrange rejects it as the default count,
         \* and the first construction rejects the prefix otherwise.
         IF count = <<>> THEN Raised("TypeError")
         ELSE IF 1 <= count[1] THEN Raised("AddrFormatError")
         ELSE Raised("ValueError")
    ELSE LET max_subnets == (2 ^ (width(self.version) - self.prefixlen))
                            \div (2 ^ (width(self.version) - prefixlen))
             n == IF count = <<>> THEN max_subnets ELSE count[1]
         IN  IF ~(1 <= n /\ n <= max_subnets)
             THEN Raised("ValueError")
             ELSE Returned([i \in 1..n |->
                               subnet_item(self, prefixlen, i - 1)])

\* The prefix lengths and the counts subnet is called with.
Prefixlens == (0 - 1)..(Width4 + 1)

Counts == {<<>>} \cup { <<c>> : c \in 0..((2 ^ Width4) + 1) }

\* list(subnet.subnet(prefixlen, count))
NetworkSubnet(prefixlen, count) ==
    /\ pc = "object"
    /\ subnet # NoNet
    /\ op' = "IPNetwork.subnet"
    /\ num_arg' = prefixlen
    /\ args' = count
    /\ self_before' = subnet
    /\ result' = network_subnet(subnet, prefixlen, count)
    /\ ret' = NoRet
    /\ pc' = "done"
    /\ UNCHANGED <<sorted_ips, start, end, addr, subnet, other_obj>>
    /\ UNCHANGED merge_vars
    /\ UNCHANGED locals

InitSubnet ==
    /\ pc = "object"
    /\ op = "IPNetwork"
    /\ n_items = 0
    /\ covered = {}
    /\ ipv4_bit_cidrs = {}
    /\ ipv6_bit_cidrs = {}
    /\ ipv4_match_all_found = FALSE
    /\ ipv6_match_all_found = FALSE
    /\ sorted_ips = <<>>
    /\ target = NoNet
    /\ exclude = NoNet
    /\ result = NoResult
    /\ start = NoNet
    /\ end = NoNet
    /\ addr = NoAddr
    /\ subnet \in Nets
    /\ other_obj = NoAddr
    /\ num_arg = 0
    /\ self_before = NoAddr
    /\ ret = NoRet
    /\ args = <<>>
    /\ locals = <<>>

NextSubnet ==
    \E prefixlen \in Prefixlens, count \in Counts :
        NetworkSubnet(prefixlen, count)

SpecSubnet == InitSubnet /\ [][NextSubnet]_vars

(***************************************************************************)
(* Properties of IPNetwork.subnet.                                         *)
(***************************************************************************)
SubnetCalled == pc = "done" /\ op = "IPNetwork.subnet"

\* The number of subnets of the new prefix length the receiver holds.
Available == 2 ^ (num_arg - self_before.prefixlen)

\* C21: subnet(new_prefixlen, count) raises an error, rather than yielding
\* an empty sequence, when new_prefixlen is smaller than the network's own
\* prefix length, and raises when count exceeds the number of available
\* subnets 2^(new_prefixlen - prefixlen).
C21_SubnetFails ==
    SubnetCalled =>
        /\ num_arg < self_before.prefixlen => result.kind = "error"
        /\ (/\ num_arg >= self_before.prefixlen
            /\ args # <<>>
            /\ args[1] > Available) => result.kind = "error"

\* The call is one the subnets of which exist: the new prefix length is a
\* prefix length not below the receiver's, the count the default or one of
\* 1..Available.
SubnetsWanted ==
    /\ SubnetCalled
    /\ self_before.prefixlen <= num_arg
    /\ num_arg <= width(self_before.version)
    /\ args = <<>> \/ (1 <= args[1] /\ args[1] <= Available)

\* C30: for new_prefixlen >= prefixlen, subnet(new_prefixlen) with the
\* default count yields exactly 2^(new_prefixlen - prefixlen) networks, each
\* of prefix length new_prefixlen without host bits, the i-th starting at
\* first + i * 2^(width - new_prefixlen); they are pairwise disjoint and
\* their union is exactly [first, last]; with a count c in 1..that number it
\* yields the first c of them; the receiver is not modified.
C30_SubnetEnumerates ==
    SubnetsWanted =>
        LET n == self_before
            step == 2 ^ (width(n.version) - num_arg)
            nets == result.nets
        IN  /\ result.kind = "list"
            /\ Len(nets) = IF args = <<>> THEN Available ELSE args[1]
            /\ \A i \in 1..Len(nets) :
                   /\ nets[i] = Net(n.version, first(n) + ((i - 1) * step),
                                    num_arg)
                   /\ nets[i].value = first(nets[i])
            /\ \A i, j \in 1..Len(nets) :
                   i # j => Addrs(nets[i]) \cap Addrs(nets[j]) = {}
            /\ args = <<>> =>
                   UNION { Addrs(nets[i]) : i \in 1..Len(nets) }
                       = { <<n.version, a>> : a \in first(n)..last(n) }
            /\ subnet = n

\* A network with host bits was split into four or more subnets that hold
\* two or more addresses each, and a count asked for some but not all of
\* them.
C30_Witness ==
    /\ SubnetsWanted
    /\ result.kind = "list"
    /\ args # <<>>
    /\ Len(result.nets) >= 2
    /\ Len(result.nets) < Available
    /\ Available >= 4
    /\ num_arg < width(self_before.version)
    /\ self_before.value # first(self_before)

(***************************************************************************)
(* iter_iprange.                                                           *)
(***************************************************************************)
\* The loop of iter_iprange with the end left out: index stops before stop.
RECURSIVE iprange_loop_open(_, _, _, _, _)
iprange_loop_open(index_before, stop, step, version, yielded) ==
    LET index == index_before + step
        negative_step == step < 0
    IN  IF negative_step /\ ~(index > stop) THEN Returned(yielded)
        ELSE IF ~negative_step /\ ~(index < stop) THEN Returned(yielded)
        ELSE LET made == IPAddressFromInt(index, version)
             IN  IF made.kind = "error" THEN Raised(made.err)
                 ELSE iprange_loop_open(index, stop, step, version,
                                        Append(yielded, made.val))

\* The loop of iter_iprange: what list(...) collects, or the error the
\* construction of an item raised.
RECURSIVE iprange_loop(_, _, _, _, _)
iprange_loop(index_before, stop, step, version, yielded) ==
    LET index == index_before + step
        negative_step == step < 0
    IN  IF negative_step /\ ~(index >= stop) THEN Returned(yielded)
        ELSE IF ~negative_step /\ ~(index <= stop) THEN Returned(yielded)
        ELSE LET made == IPAddressFromInt(index, version)
             IN  IF made.kind = "error" THEN Raised(made.err)
                 ELSE iprange_loop(index, stop, step, version,
                                   Append(yielded, made.val))

\* list(iter_iprange(start, end, step)) for two IPAddress objects.
iter_iprange(start_ip, end_ip, step) ==
    IF start_ip.version # end_ip.version THEN Raised("TypeError")
    ELSE IF step = 0 THEN Raised("ValueError")
    ELSE iprange_loop(start_ip.value - step, end_ip.value, step,
                      start_ip.version, <<>>)

\* list(iter_iprange(start, end, step))
IterIprange(step) ==
    /\ pc = "object"
    /\ op' = "iter_iprange"
    /\ num_arg' = step
    /\ result' = iter_iprange(start, end, step)
    /\ UNCHANGED <<pc, sorted_ips, start, end, addr, subnet, other_obj,
                   self_before, ret, args>>
    /\ UNCHANGED merge_vars
    /\ UNCHANGED locals

InitIprange ==
    /\ pc = "object"
    /\ op = "IPAddress"
    /\ n_items = 0
    /\ covered = {}
    /\ ipv4_bit_cidrs = {}
    /\ ipv6_bit_cidrs = {}
    /\ ipv4_match_all_found = FALSE
    /\ ipv6_match_all_found = FALSE
    /\ sorted_ips = <<>>
    /\ target = NoNet
    /\ exclude = NoNet
    /\ result = NoResult
    /\ start \in Addresses
    /\ end \in Addresses
    /\ addr = NoAddr
    /\ subnet = NoNet
    /\ other_obj = NoAddr
    /\ num_arg = 0
    /\ self_before = NoAddr
    /\ ret = NoRet
    /\ args = <<>>
    /\ locals = <<>>

NextIprange == \E step \in Nums : IterIprange(step)

SpecIprange == InitIprange /\ [][NextIprange]_vars

(***************************************************************************)
(* Properties of iter_iprange.                                             *)
(***************************************************************************)
IprangeCalled == pc = "object" /\ op = "iter_iprange"

\* int is on the near side of the end for the step of the call.
NearSide(int) ==
    IF num_arg > 0 THEN int <= end.value ELSE int >= end.value

\* C23: iter_iprange(start, end, step) fails before yielding anything when
\* step is 0 or start and end are of different versions; otherwise it ends
\* and yields exactly start, start + step, start + 2*step, ... in order
\* while the value is on the near side of end (nothing when the step points
\* away from end), and no address it yields or constructs is outside
\* [0, max_int].
C23_IprangeSequence ==
    IprangeCalled =>
        IF num_arg = 0 \/ start.version # end.version
        THEN result.kind = "error" /\ result.nets = <<>>
        ELSE /\ result.kind = "list"
             /\ \A i \in 1..Len(result.nets) :
                    /\ result.nets[i] =
                           Addr(start.version,
                                start.value + ((i - 1) * num_arg))
                    /\ NearSide(result.nets[i].value)
                    /\ result.nets[i].value \in 0..max_int(start.version)
             /\ ~NearSide(start.value + (Len(result.nets) * num_arg))

\* A negative step of two or more that does not divide the span yielded
\* two or more addresses and stopped short of the end.
C23_Witness ==
    /\ IprangeCalled
    /\ result.kind = "list"
    /\ num_arg < -1
    /\ Len(result.nets) >= 2
    /\ result.nets[Len(result.nets)].value > end.value
    /\ end.value > 0

(***************************************************************************)
(* Iterating and slicing an IPNetwork.                                     *)
(***************************************************************************)
\* One bound of a slice, Python's slice.indices: a missing bound (<<>>) is
\* the default of the step's direction, a negative one counts from the end,
\* and the outcome is clipped to the length.
slice_bound(bound, length, step, default) ==
    IF bound = <<>> THEN default
    ELSE LET from_end == IF bound[1] < 0 THEN bound[1] + length
                         ELSE bound[1]
         IN  IF from_end < 0 THEN (IF step < 0 THEN -1 ELSE 0)
             ELSE IF from_end >= length
             THEN (IF step < 0 THEN length - 1 ELSE length)
             ELSE from_end

\* index.indices(self.size) of the slice index = <<start, stop, step>>, each
\* of the three <<>> for None or <<i>>; the step is not 0.
slice_indices(index, length) ==
    LET step == IF index[3] = <<>> THEN 1 ELSE index[3][1]
    IN  [start |-> slice_bound(index[1], length, step,
                               IF step < 0 THEN length - 1 ELSE 0),
         stop |-> slice_bound(index[2], length, step,
                              IF step < 0 THEN -1 ELSE length),
         step |-> step]

\* IPNetwork.__iter__, as list(self).
network_iter(self) ==
    LET start_ip == IPAddressFromInt(first(self), self.version)
        end_ip == IPAddressFromInt(last(self), self.version)
    IN  IF start_ip.kind = "error" THEN Raised(start_ip.err)
        ELSE IF end_ip.kind = "error" THEN Raised(end_ip.err)
        ELSE iter_iprange(start_ip.val, end_ip.val, 1)

\* iter_iprange over the offsets start..stop - step of a slice.
network_slice_range(self, start_int, stop_int, step) ==
    LET start_ip == IPAddressFromInt(first(self) + start_int, self.version)
        end_ip == IPAddressFromInt((first(self) + stop_int) - step,
                                   self.version)
    IN  IF start_ip.kind = "error" THEN Raised(start_ip.err)
        ELSE IF end_ip.kind = "error" THEN Raised(end_ip.err)
        ELSE iter_iprange(start_ip.val, end_ip.val, step)

\* IPNetwork.__getitem__ with a slice, as list(self[start:stop:step]).
network_getslice(self, index) ==
    IF self.version = 6 THEN Raised("TypeError")
    ELSE IF index[3] = <<0>> THEN Raised("ValueError")
    ELSE LET found == slice_indices(index, size(self))
         IN  IF (found.start + found.step < 0) \/ (found.step > found.stop)
             THEN Returned(<<IPAddressFromInt(first(self),
                                              self.version).val>>)
             ELSE network_slice_range(self, found.start, found.stop,
                                      found.step)

\* iter_hosts of an IPv4 network with the broadcast address kept.
iter_hosts_to_last(self) ==
    IF self.version = 4
    THEN IF size(self) >= 4
         THEN iter_iprange(Addr(self.version, first(self) + 1),
                           Addr(self.version, last(self)), 1)
         ELSE Returned(<<>>)
    ELSE IF first(self) = 0
         THEN IF size(self) # 1
              THEN iter_iprange(Addr(self.version, first(self) + 1),
                                Addr(self.version, last(self)), 1)
              ELSE Returned(<<>>)
         ELSE network_iter(self)

\* IPNetwork.iter_hosts, as list(self.iter_hosts()).
iter_hosts(self) ==
    IF self.version = 4
    THEN IF size(self) >= 4
         THEN LET start_ip == IPAddressFromInt(first(self) + 1, self.version)
                  end_ip == IPAddressFromInt(last(self) - 1, self.version)
              IN  IF start_ip.kind = "error" THEN Raised(start_ip.err)
                  ELSE IF end_ip.kind = "error" THEN Raised(end_ip.err)
                  ELSE iter_iprange(start_ip.val, end_ip.val, 1)
         ELSE Returned(<<>>)
    ELSE IF first(self) = 0
         THEN IF size(self) # 1
              THEN LET start_ip == IPAddressFromInt(first(self) + 1,
                                                    self.version)
                       end_ip == IPAddressFromInt(last(self), self.version)
                   IN  IF start_ip.kind = "error" THEN Raised(start_ip.err)
                       ELSE IF end_ip.kind = "error" THEN Raised(end_ip.err)
                       ELSE iter_iprange(start_ip.val, end_ip.val, 1)
              ELSE Returned(<<>>)
         ELSE network_iter(self)

\* The bounds and steps a slice is written with: none, or an integer.
SliceInts == {<<>>} \cup { <<i>> : i \in (0 - (Width4 + 1))..(Width4 + 1) }

\* list(subnet)
NetworkIter ==
    /\ pc = "object"
    /\ subnet # NoNet
    /\ pc' = "done"
    /\ op' = "IPNetwork.__iter__"
    /\ result' = network_iter(subnet)
    /\ UNCHANGED <<sorted_ips, start, end, addr, subnet, other_obj, num_arg,
                   self_before, ret, args>>
    /\ UNCHANGED merge_vars
    /\ UNCHANGED locals

\* list(subnet.iter_hosts())
NetworkIterHosts ==
    /\ pc = "object"
    /\ subnet # NoNet
    /\ pc' = "done"
    /\ op' = "IPNetwork.iter_hosts"
    /\ result' = iter_hosts(subnet)
    /\ UNCHANGED <<sorted_ips, start, end, addr, subnet, other_obj, num_arg,
                   self_before, ret, args>>
    /\ UNCHANGED merge_vars
    /\ UNCHANGED locals

\* list(subnet[start:stop:step])
NetworkGetSlice(index) ==
    /\ pc = "object"
    /\ subnet # NoNet
    /\ pc' = "done"
    /\ op' = "IPNetwork.__getitem__"
    /\ args' = index
    /\ result' = network_getslice(subnet, index)
    /\ UNCHANGED <<sorted_ips, start, end, addr, subnet, other_obj, num_arg,
                   self_before, ret>>
    /\ UNCHANGED merge_vars
    /\ UNCHANGED locals

InitIterate ==
    /\ pc = "object"
    /\ op = "IPNetwork"
    /\ n_items = 0
    /\ covered = {}
    /\ ipv4_bit_cidrs = {}
    /\ ipv6_bit_cidrs = {}
    /\ ipv4_match_all_found = FALSE
    /\ ipv6_match_all_found = FALSE
    /\ sorted_ips = <<>>
    /\ target = NoNet
    /\ exclude = NoNet
    /\ result = NoResult
    /\ start = NoNet
    /\ end = NoNet
    /\ addr = NoAddr
    /\ subnet \in Nets
    /\ other_obj = NoAddr
    /\ num_arg = 0
    /\ self_before = NoAddr
    /\ ret = NoRet
    /\ args = <<>>
    /\ locals = <<>>

NextIterate ==
    \/ NetworkIter
    \/ NetworkIterHosts
    \/ \E index \in SliceInts \X SliceInts \X SliceInts :
           NetworkGetSlice(index)

SpecIterate == InitIterate /\ [][NextIterate]_vars

(***************************************************************************)
(* Properties of iterating and slicing an IPNetwork.                       *)
(***************************************************************************)
\* Python's range(from, to, by) for by # 0.
RECURSIVE PyRange(_, _, _)
PyRange(from, to, by) ==
    IF (by > 0 /\ from >= to) \/ (by < 0 /\ from <= to) THEN <<>>
    ELSE <<from>> \o PyRange(from + by, to, by)

\* The addresses of version 4 at the offsets of a sequence from a base.
AddressesAt(base, offsets) ==
    [i \in 1..Len(offsets) |-> Addr(4, base + offsets[i])]

\* C22: every slice n[start:stop:step] of an IPv4 network yields exactly
\* the addresses first + i for i in range(start, stop, step) resolved
\* against the size, in that order, steps that do not divide the span and
\* empty slices included; slicing an IPv6 network is rejected with an error.
C22_SliceIsRange ==
    (pc = "done" /\ op = "IPNetwork.__getitem__") =>
        IF subnet.version = 6 THEN result.kind = "error"
        ELSE args[3] # <<0>> =>
                 LET found == slice_indices(args, size(subnet))
                 IN  /\ result.kind = "list"
                     /\ result.nets =
                            AddressesAt(first(subnet),
                                        PyRange(found.start, found.stop,
                                                found.step))

\* The addresses of a version from one integer to another, ascending.
AddressesFromTo(version, from, to) ==
    [i \in 1..((to - from) + 1) |-> Addr(version, from + (i - 1))]

\* C26: iterating a network yields every address from first to last in
\* ascending order; iter_hosts of an IPv4 network yields first+1 .. last-1
\* when size >= 4 and nothing when size < 4; of an IPv6 network it yields
\* first+1 .. last when first is 0 (nothing for the single address ::) and
\* first .. last otherwise.
C26_IterAndHosts ==
    LET n == subnet
    IN  /\ (pc = "done" /\ op = "IPNetwork.__iter__") =>
               /\ result.kind = "list"
               /\ result.nets = AddressesFromTo(n.version, first(n), last(n))
        /\ (pc = "done" /\ op = "IPNetwork.iter_hosts") =>
               /\ result.kind = "list"
               /\ result.nets =
                      IF n.version = 4
                      THEN IF size(n) >= 4
                           THEN AddressesFromTo(4, first(n) + 1, last(n) - 1)
                           ELSE <<>>
                      ELSE IF first(n) = 0
                           THEN AddressesFromTo(6, first(n) + 1, last(n))
                           ELSE AddressesFromTo(6, first(n), last(n))

\* The hosts of an IPv4 network of four or more addresses that starts above
\* 0 and ends below max_int were listed.
C26_Witness ==
    /\ pc = "done"
    /\ op = "IPNetwork.iter_hosts"
    /\ subnet.version = 4
    /\ size(subnet) >= 4
    /\ first(subnet) > 0
    /\ subnet.value # first(subnet)
    /\ Len(result.nets) = size(subnet) - 2

(***************************************************************************)
(* IPRange.                                                                *)
(***************************************************************************)
\* What a constructor is handed: an IPAddress object, the text of an
\* address in the format of a version, or an integer (version 0).
Input(kind, version, value) ==
    [kind |-> kind, version |-> version, value |-> value]

Inputs ==
    { Input(kind, ip.version, ip.value) :
        kind \in {"IPAddress", "str"}, ip \in Addresses }
      \cup { Input("int", 0, value) : value \in 0..(max_int(4) + 1) }

\* IPAddress._set_value with the version still undetected: the first of
\* (ipv4, ipv6) whose str_to_int accepts the text, or whose range holds the
\* integer; 0 when neither does.
detect_address_version(input) ==
    LET accepts(version) ==
            IF input.kind = "str"
            THEN str_to_int(version,
                            [fmt |-> input.version, int |-> input.value]) >= 0
            ELSE 0 <= input.value /\ input.value <= max_int(version)
    IN  IF accepts(4) THEN 4 ELSE IF accepts(6) THEN 6 ELSE 0

\* IPAddress.__init__ whose copy constructor takes any version.
IPAddressInit_any_version(input, version) ==
    IF input.kind = "IPAddress" \/ version = 0
    THEN ReturnedAddr(Addr(IF input.version = 0 THEN 4 ELSE input.version,
                           input.value))
    ELSE ReturnedAddr(Addr(version, input.value))

\* IPAddress(addr, version), version 0 for None: the copy constructor, or
\* _set_value with the version explicit or implicit.
IPAddressInit(input, version) ==
    IF input.kind = "IPAddress"
    THEN IF version # 0 /\ version # input.version
         THEN RaisedBy("ValueError")
         ELSE ReturnedAddr(Addr(input.version, input.value))
    ELSE IF version = 0
    THEN LET detected == detect_address_version(input)
         IN  IF detected = 0 THEN RaisedBy("AddrFormatError")
             ELSE ReturnedAddr(Addr(detected, input.value))
    ELSE IF input.kind = "str"
    THEN IF str_to_int(version,
                       [fmt |-> input.version, int |-> input.value]) >= 0
         THEN ReturnedAddr(Addr(version, input.value))
         ELSE RaisedBy("AddrFormatError")
    ELSE IPAddressFromInt(input.value, version)

ReturnedRange(iprange) == [kind |-> "range", val |-> iprange, err |-> ""]

\* IPRange.__init__
IPRangeInit(start_input, end_input) ==
    LET start_ip == IPAddressInit(start_input, 0)
    IN  IF start_ip.kind = "error" THEN start_ip
        ELSE LET end_ip == IPAddressInit(end_input, start_ip.val.version)
             IN  IF end_ip.kind = "error" THEN end_ip
                 ELSE IF start_ip.val.value > end_ip.val.value
                 THEN RaisedBy("AddrFormatError")
                 ELSE ReturnedRange([start |-> start_ip.val,
                                     end |-> end_ip.val])

\* IPRange.first, IPRange.last and IPRange.size
range_first(iprange) == iprange.start.value

range_last(iprange) == iprange.end.value

range_size(iprange) == (iprange.end.value - iprange.start.value) + 1

\* IPRange(start, end)
IPRangeNew ==
    /\ pc = "call"
    /\ op = "IPRange"
    /\ pc' = "done"
    /\ ret' = IPRangeInit(start, end)
    /\ UNCHANGED <<op, sorted_ips, result, start, end, addr, subnet,
                   other_obj, num_arg, self_before, args>>
    /\ UNCHANGED merge_vars
    /\ UNCHANGED locals

InitIPRange ==
    /\ pc = "call"
    /\ op = "IPRange"
    /\ n_items = 0
    /\ covered = {}
    /\ ipv4_bit_cidrs = {}
    /\ ipv6_bit_cidrs = {}
    /\ ipv4_match_all_found = FALSE
    /\ ipv6_match_all_found = FALSE
    /\ sorted_ips = <<>>
    /\ target = NoNet
    /\ exclude = NoNet
    /\ result = NoResult
    /\ start \in Inputs
    /\ end \in Inputs
    /\ addr = NoAddr
    /\ subnet = NoNet
    /\ other_obj = NoAddr
    /\ num_arg = 0
    /\ self_before = NoAddr
    /\ ret = NoRet
    /\ args = <<>>
    /\ locals = <<>>

NextIPRange == IPRangeNew

SpecIPRange == InitIPRange /\ [][NextIPRange]_vars

(***************************************************************************)
(* Properties of IPRange.                                                  *)
(***************************************************************************)
\* C25: constructing a range fails when start.value > end.value and fails
\* when start and end are of different versions, neither side being
\* reinterpreted or dropped; every range that was constructed has start and
\* end of the same version, first <= last and size = last - first + 1.
C25_RangeConstruction ==
    (pc = "done" /\ op = "IPRange") =>
        /\ start.value > end.value => ret.kind = "error"
        /\ (start.version # 0 /\ end.version # 0
              /\ start.version # end.version) => ret.kind = "error"
        /\ ret.kind # "error" =>
               /\ ret.kind = "range"
               /\ ret.val.start.version = ret.val.end.version
               /\ ret.val.start.value = start.value
               /\ ret.val.end.value = end.value
               /\ start.version # 0 => ret.val.start.version = start.version
               /\ end.version # 0 => ret.val.end.version = end.version
               /\ range_first(ret.val) <= range_last(ret.val)
               /\ range_size(ret.val)
                      = (range_last(ret.val) - range_first(ret.val)) + 1

\* A range of an IPv6 address object and IPv4 text with the lower value in
\* front was refused.
C25_Witness ==
    /\ pc = "done"
    /\ op = "IPRange"
    /\ start.kind = "IPAddress"
    /\ start.version = 6
    /\ end.kind = "str"
    /\ end.version = 4
    /\ start.value < end.value
    /\ ret.kind = "error"

(***************************************************************************)
(* _reduce_bit_cidrs of cidr_merge, pass by pass.                          *)
(***************************************************************************)
\* The prefix bit strings of one to Width4 bits.
PrefixStrings == UNION { [1..k -> {0, 1}] : k \in 1..Width4 }

\* The sets of up to n of them.
RECURSIVE PrefixSets(_)
PrefixSets(n) ==
    IF n = 0 THEN {{}}
    ELSE LET smaller == PrefixSets(n - 1)
         IN  smaller \cup { set \cup {bits} :
                              set \in smaller, bits \in PrefixStrings }

\* The sets the loop of cidr_merge hands to _reduce_bit_cidrs: the empty
\* string alone, or up to MaxItems prefixes of one bit or more.
BitCidrSets == {{<<>>}} \cup PrefixSets(MaxItems)

\* One turn of 'while 1' that always takes the break.
reduce_outer_breaks(st) ==
    LET pass == reduce_pass(st.cidrs, st.new_cidrs, TRUE)
    IN  [cidrs |-> <<>>, new_cidrs |-> pass.new_cidrs,
         finished |-> TRUE, passes |-> st.passes + 1,
         before |-> st.cidrs]

\* One turn of 'while 1' on the locals cidrs, new_cidrs and finished:
\* the inner loop, then the break or the reset.  passes counts the turns
\* and before keeps the list the turn began with.
reduce_outer(st) ==
    LET pass == reduce_pass(st.cidrs, st.new_cidrs, TRUE)
    IN  IF pass.finished
        THEN [cidrs |-> <<>>, new_cidrs |-> pass.new_cidrs,
              finished |-> TRUE, passes |-> st.passes + 1,
              before |-> st.cidrs]
        ELSE [cidrs |-> pass.new_cidrs, new_cidrs |-> <<>>,
              finished |-> FALSE, passes |-> st.passes + 1,
              before |-> st.cidrs]

\* new_cidrs = [] and cidrs.sort()
ReduceSort ==
    /\ pc = "reduce_sort"
    /\ pc' = "reduce_pass"
    /\ locals' = [cidrs |-> sort_bits(ipv4_bit_cidrs), new_cidrs |-> <<>>,
                  finished |-> FALSE, passes |-> 0, before |-> <<>>]
    /\ UNCHANGED <<op, sorted_ips, result>>
    /\ UNCHANGED <<start, end, addr, subnet, other_obj, num_arg,
                   self_before, ret, args>>
    /\ UNCHANGED merge_vars

\* One turn of the 'while 1' loop.
ReducePass ==
    /\ pc = "reduce_pass"
    /\ locals' = reduce_outer(locals)
    /\ pc' = IF locals'.finished THEN "reduce_return" ELSE "reduce_pass"
    /\ UNCHANGED <<op, sorted_ips, result>>
    /\ UNCHANGED <<start, end, addr, subnet, other_obj, num_arg,
                   self_before, ret, args>>
    /\ UNCHANGED merge_vars

\* The special case of the whole address space, and the return.
ReduceReturn ==
    /\ pc = "reduce_return"
    /\ pc' = "done"
    /\ result' = Returned(whole_space(locals.new_cidrs))
    /\ UNCHANGED <<op, sorted_ips, locals>>
    /\ UNCHANGED <<start, end, addr, subnet, other_obj, num_arg,
                   self_before, ret, args>>
    /\ UNCHANGED merge_vars

InitReduce ==
    /\ pc = "reduce_sort"
    /\ op = "_reduce_bit_cidrs"
    /\ n_items = 0
    /\ covered = {}
    /\ ipv4_bit_cidrs \in BitCidrSets
    /\ ipv6_bit_cidrs = {}
    /\ ipv4_match_all_found = (ipv4_bit_cidrs = {<<>>})
    /\ ipv6_match_all_found = FALSE
    /\ sorted_ips = <<>>
    /\ target = NoNet
    /\ exclude = NoNet
    /\ result = NoResult
    /\ NoObject

NextReduce ==
    \/ ReduceSort
    \/ ReducePass
    \/ ReduceReturn

SpecReduce == InitReduce /\ [][NextReduce]_vars

\* The loop is run to its end: a call that can take a step takes it.
SpecReduceLive == SpecReduce /\ WF_vars(NextReduce)

(***************************************************************************)
(* Properties of the reduction loop.                                       *)
(***************************************************************************)
\* A turn of the loop has been taken.
PassTaken ==
    /\ op = "_reduce_bit_cidrs"
    /\ pc \in {"reduce_pass", "reduce_return", "done"}
    /\ locals.passes > 0

\* What the turn just taken left: the list of the next turn, or the final
\* list.
PassGave == IF locals.finished THEN locals.new_cidrs ELSE locals.cidrs

\* Every turn that reports a change leaves a strictly shorter list, the
\* number of turns is at most the number of distinct prefixes plus one, and
\* one more pass over the returned list changes nothing.
ReduceSafe ==
    /\ PassTaken =>
           /\ ~locals.finished => Len(PassGave) < Len(locals.before)
           /\ locals.finished => PassGave = locals.before
           /\ locals.passes <= Cardinality(ipv4_bit_cidrs) + 1
    /\ (op = "_reduce_bit_cidrs" /\ pc = "done") =>
           /\ result.kind = "list"
           /\ reduce_pass(result.nets, <<>>, TRUE)
                  = [new_cidrs |-> result.nets, finished |-> TRUE]

\* C29: the reduction loop of cidr_merge always terminates and ends in a
\* fixed point: every pass that reports a change produces a strictly
\* shorter list of prefix bit strings, so the number of passes is at most
\* the number of distinct input prefixes plus one, and one more
\* sibling-merge/containment pass over the returned list changes nothing.
C29_ReduceTerminates ==
    /\ []ReduceSafe
    /\ <>(op = "_reduce_bit_cidrs" /\ pc = "done")

\* The loop took three turns, two of which reported a change, and returned
\* a single prefix.
C29_Witness ==
    /\ op = "_reduce_bit_cidrs"
    /\ pc = "done"
    /\ locals.passes = 3
    /\ Cardinality(ipv4_bit_cidrs) = 3
    /\ Len(result.nets) = 1
    /\ result.nets # <<<<>>>>

(***************************************************************************)
(* IPNetwork.supernet, and every call that makes or changes an object.     *)
(***************************************************************************)
\* The loop of supernet: the prefix length is lowered by the setter one bit
\* at a time and the cidr of each step kept.
RECURSIVE supernet_loop(_, _, _)
supernet_loop(supernet, prefixlen, supernets) ==
    IF supernet.prefixlen > prefixlen
    THEN LET lowered == set_prefixlen(supernet, supernet.prefixlen - 1).self
         IN  supernet_loop(lowered, prefixlen,
                           Append(supernets, cidr(lowered)))
    ELSE [i \in 1..Len(supernets) |-> supernets[(Len(supernets) - i) + 1]]

\* IPNetwork.supernet
network_supernet(self, prefixlen) ==
    IF ~(0 <= prefixlen /\ prefixlen <= width(self.version))
    THEN Raised("ValueError")
    ELSE Returned(supernet_loop(cidr(self), prefixlen, <<>>))

\* subnet.supernet(n)
NetworkSupernet(n) ==
    /\ pc = "object"
    /\ subnet # NoNet
    /\ pc' = "done"
    /\ op' = "IPNetwork.supernet"
    /\ num_arg' = n
    /\ self_before' = subnet
    /\ result' = network_supernet(subnet, n)
    /\ ret' = NoRet
    /\ UNCHANGED <<sorted_ips, start, end, addr, subnet, other_obj, args>>
    /\ UNCHANGED merge_vars
    /\ UNCHANGED locals

\* An object is constructed, or the arguments of an engine call are.
InitObjects ==
    \/ InitAddress
    \/ InitNetwork
    \/ InitMerge
    \/ InitExclude
    \/ InitSpan
    \/ InitRange

\* Any call on the object, any engine call.
NextObjects ==
    \/ NextAddress
    \/ AddressIPv4
    \/ \E ipv4_compatible \in BOOLEAN : AddressIPv6(ipv4_compatible)
    \/ NextNetwork
    \/ NextSubnet
    \/ \E n \in Prefixlens : NetworkSupernet(n)
    \/ NextMerge
    \/ NextExclude
    \/ NextSpan
    \/ NextRange

SpecObjects == InitObjects /\ [][NextObjects]_vars

(***************************************************************************)
(* Properties of every object.                                             *)
(***************************************************************************)
ValidAddress(obj) ==
    /\ obj.version \in Versions
    /\ 0 <= obj.value
    /\ obj.value <= max_int(obj.version)

ValidNetwork(obj) ==
    /\ ValidAddress(obj)
    /\ 0 <= obj.prefixlen
    /\ obj.prefixlen <= width(obj.version)

\* The receiver of the last call on an object, as it is now.
Receiver == IF is_network(self_before) THEN subnet ELSE addr

Init ==
    \/ InitMerge
    \/ InitExclude
    \/ InitSpan
    \/ InitRange
    \/ InitMatch
    \/ InitSort
    \/ InitNetwork
    \/ InitAddress
    \/ InitConvert
    \/ InitSubnet
    \/ InitIprange
    \/ InitIterate
    \/ InitIPRange
    \/ InitReduce
    \/ InitObjects

Next ==
    \/ NextMerge
    \/ NextExclude
    \/ NextSpan
    \/ NextRange
    \/ NextMatch
    \/ NextSort
    \/ NextNetwork
    \/ NextAddress
    \/ NextConvert
    \/ NextSubnet
    \/ NextIprange
    \/ NextIterate
    \/ NextIPRange
    \/ NextReduce
    \/ NextObjects

Spec == Init /\ [][Next]_vars

=============================================================================
